---------------------------- MODULE Spec2Model ----------------------------
(***************************************************************************)
(* A model of libelf, the zero-copy ELF64 decoder (src/src/*.rs).          *)
(*                                                                         *)
(* The caller's buffer is a sequence of bytes.  A multi-byte field is the  *)
(* tuple of its bytes in memory order (a "word"); the decoder overlays its *)
(* #[repr(C)] structs on the buffer, so on the little-endian targets of    *)
(* the crate (x86_64, riscv) a field's value is its word read low byte     *)
(* first.  A word converts to a number only when it is below 2^24 (Fits),  *)
(* which is more than any buffer of the model is long; larger words are    *)
(* kept as words and compared as "larger than every length".               *)
(*                                                                         *)
(* A slice of the buffer is a range [off, len] of it.  A panic (a failed   *)
(* bounds check, assert or unwrap) and the outcomes of undefined behaviour *)
(* are explicit results.                                                   *)
(***************************************************************************)
EXTENDS Integers, Sequences, FiniteSets, TLC

VARIABLES
    data,      \* the caller's byte buffer (Elf.data)
    aligned,   \* whether the buffer's address is a multiple of align_of<FileHeader>
    img,       \* ghost: the field values the buffer was written from
    elf,       \* "none" before Elf::new, then "ok" (an Elf exists) or "err"
    op,        \* the last operation called
    arg,       \* its argument
    res,       \* its result
    iter,      \* the live iterator closure: [kind, base, n, index, done]
    out,       \* the records (buffer offsets) the live iterator has yielded
    prev,      \* the records of the last finished iteration: [kind, seq]
    table,     \* the StringTable held: its slice, or NoTable
    oob        \* the last operation read memory outside the slice it was given

vars == <<data, aligned, img, elf, op, arg, res, iter, out, prev, table, oob>>

---------------------------------------------------------------------------
(* Record sizes: the assert_struct_size! lines of the source.              *)
EhdrSize == 64
PhdrSize == 56
ShdrSize == 64
SymSize == 24
DynSize == 16
EhdrAlign == 8

(* Bounds of the model.                                                    *)
MaxNum == 2        \* header-table counts and section/segment indices tried
MaxPad == 1        \* 8-byte blocks of trailing bytes appended to an image
MaxStrLen == 3     \* bytes of memory a string table lies in
MaxOver == 1       \* bytes past the buffer an unbounded scan reads before a zero
MaxDyn == 3        \* raw entries of a dynamic segment

Byte == 0..255

Min(a, b) == IF a < b THEN a ELSE b

---------------------------------------------------------------------------
(* Words: fields as they lie in memory, read on a little-endian target.    *)

\* the n bytes at byte offset o of b
Word(b, o, n) == SubSeq(b, o + 1, o + n)

\* the word is below 2^24
Fits(w) == \A i \in 4..Len(w) : w[i] = 0

\* its value, when it fits
Num(w) ==
    (IF Len(w) >= 1 THEN w[1] ELSE 0)
  + (IF Len(w) >= 2 THEN w[2] * 256 ELSE 0)
  + (IF Len(w) >= 3 THEN w[3] * 65536 ELSE 0)

\* w == n, w > n, w >= n for a word w and a number n < 2^24
WEq(w, n) == Fits(w) /\ Num(w) = n
WGt(w, n) == ~Fits(w) \/ Num(w) > n
WGe(w, n) == ~Fits(w) \/ Num(w) >= n

U8(b, o) == b[o + 1]
U16(b, o) == Num(Word(b, o, 2))

---------------------------------------------------------------------------
(* Writing an image (the input side; the layouts of the ELF64 format).     *)
(* A field value v >= 0 is the number v; v < 0 stands for 2^64 + v (or     *)
(* 2^32 + v in a 4-byte field), a value near the top of the field's range. *)

RECURSIVE LE(_, _)
LE(v, n) == IF n = 0 THEN <<>> ELSE <<v % 256>> \o LE(v \div 256, n - 1)

Enc(v, n) ==
    IF v >= 0 THEN LE(v, n)
    ELSE LE(16777216 + v, 3) \o [i \in 1..(n - 3) |-> 255]

Zeros(n) == [i \in 1..n |-> 0]

ElfMagic == <<127, 69, 76, 70>>

EncEhdr(h) ==
    h.magic \o <<h.class, h.data, h.hversion, h.osabi, h.abiversion>> \o Zeros(7)
    \o Enc(h.type, 2) \o Enc(h.machine, 2) \o Enc(h.version, 4)
    \o Enc(h.entry, 8) \o Enc(h.phoff, 8) \o Enc(h.shoff, 8)
    \o Enc(h.flags, 4) \o Enc(h.ehsize, 2)
    \o Enc(h.phentsize, 2) \o Enc(h.phnum, 2)
    \o Enc(h.shentsize, 2) \o Enc(h.shnum, 2) \o Enc(h.shstrndx, 2)

EncPhdr(p) ==
    Enc(p.type, 4) \o Enc(p.flags, 4) \o Enc(p.offset, 8) \o Enc(p.vaddr, 8)
    \o Enc(p.paddr, 8) \o Enc(p.filesz, 8) \o Enc(p.memsz, 8) \o Enc(p.align, 8)

EncShdr(s) ==
    Enc(s.name, 4) \o Enc(s.type, 4) \o Enc(s.flags, 8) \o Enc(s.addr, 8)
    \o Enc(s.offset, 8) \o Enc(s.size, 8) \o Enc(s.link, 4) \o Enc(s.info, 4)
    \o Enc(s.addralign, 8) \o Enc(s.entsize, 8)

EncDyn(d) == Enc(d.tag, 8) \o Enc(d.value, 8)

EncSym(y) ==
    Enc(y.name, 4) \o <<y.info, y.other>> \o Enc(y.shndx, 2) \o Enc(y.value, 8)
    \o Enc(y.size, 8)

RECURSIVE SeqsUpTo(_, _)
SeqsUpTo(S, n) ==
    IF n = 0 THEN {<<>>}
    ELSE SeqsUpTo(S, n - 1)
         \cup {Append(q, x) : q \in {r \in SeqsUpTo(S, n - 1) : Len(r) = n - 1}, x \in S}

RECURSIVE Flat(_)
Flat(ss) == IF ss = <<>> THEN <<>> ELSE Head(ss) \o Flat(Tail(ss))

\* the first n bytes of b, or all of b followed by zeros
Resize(b, n) == [i \in 1..n |-> IF i <= Len(b) THEN b[i] ELSE 0]

DefaultEhdr ==
    [magic |-> ElfMagic, class |-> 2, data |-> 1, hversion |-> 1, osabi |-> 0,
     abiversion |-> 0, type |-> 2, machine |-> 62, version |-> 1, entry |-> 4096,
     phoff |-> 64, shoff |-> 64, flags |-> 0, ehsize |-> 64, phentsize |-> 56,
     phnum |-> 0, shentsize |-> 64, shnum |-> 0, shstrndx |-> 0]

DefaultPhdr ==
    [type |-> 1, flags |-> 5, offset |-> 0, vaddr |-> 4096, paddr |-> 4096,
     filesz |-> 0, memsz |-> 0, align |-> 8]

DefaultShdr ==
    [name |-> 0, type |-> 1, flags |-> 2, addr |-> 0, offset |-> 0, size |-> 0,
     link |-> 0, info |-> 0, addralign |-> 1, entsize |-> 0]


---------------------------------------------------------------------------
(* Primitive enumerations (types.rs).  A variant is [v |-> name]; a        *)
(* carrier variant also holds the raw value: [v |-> name, raw |-> x].      *)

Variant(name) == [v |-> name]
Carrier(name, x) == [v |-> name, raw |-> x]

Version_from_u32(x) ==
    IF WEq(x, 0) THEN Variant("None")
    ELSE IF WEq(x, 1) THEN Variant("Current")
    ELSE Carrier("Unknown", x)

\* x as u32: the byte, zero-extended
Version_from_u8(x) == Version_from_u32(<<x, 0, 0, 0>>)

ElfType_from_u16(x) ==
    CASE x = 0 -> Variant("None")
      [] x = 1 -> Variant("Rel")
      [] x = 2 -> Variant("Exec")
      [] x = 3 -> Variant("Dyn")
      [] x = 4 -> Variant("Core")
      [] x >= 65024 /\ x <= 65279 -> Carrier("EnvSpecific", x)
      [] x >= 65280 /\ x <= 65535 -> Carrier("CpuSpecific", x)
      [] OTHER -> Carrier("Unknown", x)

Machine_from_u16(x) ==
    CASE x = 0 -> Variant("None")
      [] x = 62 -> Variant("X86_64")
      [] x = 183 -> Variant("Aarch64")
      [] x = 243 -> Variant("Riscv")
      [] OTHER -> Carrier("Unknown", x)

Class_from_u8(x) ==
    CASE x = 0 -> Variant("None")
      [] x = 1 -> Variant("Bits32")
      [] x = 2 -> Variant("Bits64")
      [] OTHER -> Carrier("Unknown", x)

Class_to_u8(c) ==
    CASE c.v = "None" -> 0
      [] c.v = "Bits32" -> 1
      [] c.v = "Bits64" -> 2
      [] OTHER -> c.raw

Data_from_u8(x) ==
    CASE x = 0 -> Variant("None")
      [] x = 1 -> Variant("TwosCompLittle")
      [] x = 2 -> Variant("TwosCompBig")
      [] OTHER -> Carrier("Unknown", x)

OsAbi_from_u8(x) ==
    CASE x = 0 -> Variant("SysV")
      [] x = 2 -> Variant("NetBSD")
      [] x = 3 -> Variant("Linux")
      [] x = 9 -> Variant("FreeBSD")
      [] x = 12 -> Variant("OpenBSD")
      [] x = 255 -> Variant("Standalone")
      [] OTHER -> Carrier("Unknown", x)

---------------------------------------------------------------------------
(* FileHeader (lib.rs): the fields of the #[repr(C)] struct overlaid at    *)
(* offset 0 of the buffer, at the offsets the field order gives them.      *)

Ehdr_magic(b) == Word(b, 0, 4)
Ehdr_class(b) == U8(b, 4)
Ehdr_data(b) == U8(b, 5)
Ehdr_header_version(b) == U8(b, 6)
Ehdr_os_abi(b) == U8(b, 7)
Ehdr_os_abi_version(b) == U8(b, 8)
Ehdr_elf_type(b) == U16(b, 16)
Ehdr_machine(b) == U16(b, 18)
Ehdr_version(b) == Word(b, 20, 4)
Ehdr_entry_point(b) == Word(b, 24, 8)
Ehdr_phdr_offset(b) == Word(b, 32, 8)
Ehdr_shdr_offset(b) == Word(b, 40, 8)
Ehdr_phdr_size(b) == U16(b, 54)
Ehdr_phdr_num(b) == U16(b, 56)
Ehdr_shdr_size(b) == U16(b, 58)
Ehdr_shdr_num(b) == U16(b, 60)
Ehdr_shdr_strtab_index(b) == U16(b, 62)

\* FileHeader::check_buffer: && evaluates left to right and stops at the
\* first false operand, so no byte of a short buffer is read
check_buffer(b, al) ==
    /\ al
    /\ Len(b) >= EhdrSize
    /\ b[1] = 127
    /\ b[2] = 69
    /\ b[3] = 76
    /\ b[4] = 70

\* the accessors of FileHeader, and the table fields read through Deref
FileHeaderView(b) ==
    [magic |-> Ehdr_magic(b),
     class |-> Class_from_u8(Ehdr_class(b)),
     data |-> Data_from_u8(Ehdr_data(b)),
     header_version |-> Version_from_u8(Ehdr_header_version(b)),
     os_abi |-> OsAbi_from_u8(Ehdr_os_abi(b)),
     os_abi_version |-> Ehdr_os_abi_version(b),
     file_type |-> ElfType_from_u16(Ehdr_elf_type(b)),
     machine |-> Machine_from_u16(Ehdr_machine(b)),
     file_version |-> Version_from_u32(Ehdr_version(b)),
     entry_point |-> Ehdr_entry_point(b),
     phdr_offset |-> Ehdr_phdr_offset(b),
     shdr_offset |-> Ehdr_shdr_offset(b),
     phdr_num |-> Ehdr_phdr_num(b),
     shdr_num |-> Ehdr_shdr_num(b),
     shdr_strtab_index |-> Ehdr_shdr_strtab_index(b)]

Ok(x) == [tag |-> "Ok", val |-> x]
Err(e) == [tag |-> "Err", val |-> e]
Panic(why) == [tag |-> "Panic", val |-> why]
None == [tag |-> "None", val |-> <<>>]
Some(x) == [tag |-> "Some", val |-> x]

\* Elf::new without the section header stride check
Elf_new_NoShdrSize(b, al) ==
    IF ~check_buffer(b, al) THEN Err("invalid ELF")
    ELSE IF Ehdr_class(b) # Class_to_u8(Variant("Bits64")) THEN Err("not ELF64")
    ELSE IF Ehdr_phdr_size(b) # PhdrSize THEN Err("bad program header size")
    ELSE Ok("Elf")

\* Elf::new reporting a wrong class with the buffer check's error
Elf_new_OneError(b, al) ==
    IF ~check_buffer(b, al) THEN Err("invalid ELF")
    ELSE IF Ehdr_class(b) # Class_to_u8(Variant("Bits64")) THEN Err("invalid ELF")
    ELSE IF Ehdr_phdr_size(b) # PhdrSize THEN Err("bad program header size")
    ELSE IF Ehdr_shdr_size(b) # ShdrSize THEN Err("bad section header size")
    ELSE Ok("Elf")

\* Elf::new with the stride checks before the class check
Elf_new_StridesFirst(b, al) ==
    IF ~check_buffer(b, al) THEN Err("invalid ELF")
    ELSE IF Ehdr_phdr_size(b) # PhdrSize THEN Err("bad program header size")
    ELSE IF Ehdr_shdr_size(b) # ShdrSize THEN Err("bad section header size")
    ELSE IF Ehdr_class(b) # Class_to_u8(Variant("Bits64")) THEN Err("not ELF64")
    ELSE Ok("Elf")

\* Elf::new
Elf_new(b, al) ==
    IF ~check_buffer(b, al) THEN Err("invalid ELF")
    ELSE IF Ehdr_class(b) # Class_to_u8(Variant("Bits64")) THEN Err("not ELF64")
    ELSE IF Ehdr_phdr_size(b) # PhdrSize THEN Err("bad program header size")
    ELSE IF Ehdr_shdr_size(b) # ShdrSize THEN Err("bad section header size")
    ELSE Ok("Elf")

---------------------------------------------------------------------------
(* Slices of the buffer and Rust's checked indexing.                       *)

Slice(o, n) == [tag |-> "Slice", off |-> o, len |-> n]

Whole(b) == Slice(0, Len(b))

IsPanic(r) == r.tag = "Panic"

\* &s[n..] for a number n
IndexFromN(s, n) ==
    IF n > s.len THEN Panic("range start index out of range")
    ELSE Slice(s.off + n, s.len - n)

\* &s[..n] for a number n
IndexToN(s, n) ==
    IF n > s.len THEN Panic("range end index out of range")
    ELSE Slice(s.off, n)

\* &s[w..] and &s[..w] for a usize word w
IndexFrom(s, w) ==
    IF ~Fits(w) THEN Panic("range start index out of range")
    ELSE IndexFromN(s, Num(w))

IndexTo(s, w) ==
    IF ~Fits(w) THEN Panic("range end index out of range")
    ELSE IndexToN(s, Num(w))

\* a + b modulo 2^(8 * Len(a)), bytewise with carry
RECURSIVE WrapAddFrom(_, _, _, _)
WrapAddFrom(a, b, i, carry) ==
    IF i > Len(a) THEN <<>>
    ELSE <<(a[i] + b[i] + carry) % 256>>
         \o WrapAddFrom(a, b, i + 1, (a[i] + b[i] + carry) \div 256)

WrapAdd(a, b) == WrapAddFrom(a, b, 1, 0)

\* &s[offset..offset + size] with the end computed by a wrapping add
IndexRange_WrappingEnd(s, offset, size) ==
    IF WGt(WrapAdd(offset, size), s.len) \/ WGt(offset, s.len)
    THEN Panic("range end index out of range")
    ELSE Slice(s.off + Num(offset), Num(size))

\* &s[offset..][..size]: two checked steps, offset + size is never computed
IndexRange(s, offset, size) ==
    LET from == IndexFrom(s, offset)
    IN  IF IsPanic(from) THEN from ELSE IndexTo(from, size)

\* the bytes of a slice
Bytes(b, s) == SubSeq(b, s.off + 1, s.off + s.len)

---------------------------------------------------------------------------
(* Header tables (lib.rs): program_headers / section_headers build an      *)
(* iterator closure over a table pointer and an index starting at 0.       *)

NoIter == [kind |-> "none", base |-> 0, n |-> 0, index |-> 0, done |-> FALSE]
NewIter(k, tbl, cnt) == [kind |-> k, base |-> tbl, n |-> cnt, index |-> 0, done |-> FALSE]

\* Elf::program_headers: the table pointer, or the panic of the slicing
program_headers(b) ==
    LET from == IndexFrom(Whole(b), Ehdr_phdr_offset(b))
        tbl == IF IsPanic(from) THEN from
               ELSE IndexToN(from, Ehdr_phdr_num(b) * PhdrSize)
    IN  IF IsPanic(tbl) THEN tbl
        ELSE [tag |-> "Iter", val |-> NewIter("phdr", tbl.off, Ehdr_phdr_num(b))]

\* Elf::section_headers checking the table's offset only, as symtab does
section_headers_OffsetOnly(b) ==
    LET from == IndexFrom(Whole(b), Ehdr_shdr_offset(b))
    IN  IF IsPanic(from) THEN from
        ELSE [tag |-> "Iter", val |-> NewIter("shdr", from.off, Ehdr_shdr_num(b))]

\* Elf::section_headers
section_headers(b) ==
    LET from == IndexFrom(Whole(b), Ehdr_shdr_offset(b))
        tbl == IF IsPanic(from) THEN from
               ELSE IndexToN(from, Ehdr_shdr_num(b) * ShdrSize)
    IN  IF IsPanic(tbl) THEN tbl
        ELSE [tag |-> "Iter", val |-> NewIter("shdr", tbl.off, Ehdr_shdr_num(b))]

\* the record size of an iterator's table
Stride(kind) ==
    CASE kind = "phdr" -> PhdrSize
      [] kind = "shdr" -> ShdrSize
      [] OTHER -> SymSize

\* the closure running to the end of the buffer instead of to the count
IterCount_ToBufferEnd(b, it) ==
    CASE it.kind \in {"phdr", "shdr"} -> (Len(b) - it.base) \div Stride(it.kind)
      [] OTHER -> it.n

\* the bound the closure tests its index against
IterCount(b, it) ==
    CASE it.kind = "phdr" -> Ehdr_phdr_num(b)
      [] it.kind = "shdr" -> Ehdr_shdr_num(b)
      [] OTHER -> it.n

\* table.add(index): the buffer offset of the closure's next record
IterRecord(it) == it.base + it.index * Stride(it.kind)

\* the whole record lies in the buffer
InBuffer(b, o, size) == o + size <= Len(b)

\* Iterator::nth(i) on a fresh table iterator: the closure runs i + 1 times
Nth(b, made, i) ==
    IF IsPanic(made) THEN made
    ELSE IF i < IterCount(b, made.val) THEN Some(made.val.base + i * Stride(made.val.kind))
    ELSE None

\* Elf::section_header(index), Elf::section(index): sections().nth(index);
\* a Section is its header (an offset of the buffer) and the Elf
section_header(b, i) == Nth(b, section_headers(b), i)
section(b, i) == Nth(b, section_headers(b), i)

\* segments().nth(index)
segment(b, i) == Nth(b, program_headers(b), i)

---------------------------------------------------------------------------
(* SectionHeader (section.rs) and ProgramHeader (segment.rs) at offset r.  *)

Shdr_name_index(b, r) == Word(b, r, 4)
Shdr_section_type(b, r) == Word(b, r + 4, 4)
Shdr_file_offset(b, r) == Word(b, r + 24, 8)
Shdr_size(b, r) == Word(b, r + 32, 8)
Shdr_entry_size(b, r) == Word(b, r + 56, 8)

Phdr_kind(b, r) == Word(b, r, 4)
Phdr_file_offset(b, r) == Word(b, r + 8, 8)
Phdr_file_size(b, r) == Word(b, r + 32, 8)
Phdr_mem_size(b, r) == Word(b, r + 40, 8)

\* Section::file_data
Section_file_data(b, r) ==
    IndexRange(Whole(b), Shdr_file_offset(b, r), Shdr_size(b, r))

\* Segment::file_data
Segment_file_data(b, r) ==
    IndexRange(Whole(b), Phdr_file_offset(b, r), Phdr_file_size(b, r))

---------------------------------------------------------------------------
(* StringTable (lib.rs).  A table is a slice t of the buffer b.            *)

\* the offsets o <= z < hi of b that hold a NUL byte
NulsIn(b, o, hi) == {z \in o..(hi - 1) : b[z + 1] = 0}

SetMin(S) == CHOOSE x \in S : \A y \in S : x <= y

\* core::str::from_utf8(s).is_ok(): s is well-formed UTF-8 from index i on
Cont(s, i) == i <= Len(s) /\ s[i] >= 128 /\ s[i] <= 191

RECURSIVE Utf8From(_, _)
Utf8From(s, i) ==
    IF i > Len(s) THEN TRUE
    ELSE LET c == s[i]
             second(lo, hi) == i + 1 <= Len(s) /\ s[i + 1] >= lo /\ s[i + 1] <= hi
         IN  CASE c < 128 -> Utf8From(s, i + 1)
               [] c >= 194 /\ c <= 223 -> Cont(s, i + 1) /\ Utf8From(s, i + 2)
               [] c = 224 -> second(160, 191) /\ Cont(s, i + 2) /\ Utf8From(s, i + 3)
               [] (c >= 225 /\ c <= 236) \/ c = 238 \/ c = 239 ->
                    Cont(s, i + 1) /\ Cont(s, i + 2) /\ Utf8From(s, i + 3)
               [] c = 237 -> second(128, 159) /\ Cont(s, i + 2) /\ Utf8From(s, i + 3)
               [] c = 240 ->
                    second(144, 191) /\ Cont(s, i + 2) /\ Cont(s, i + 3) /\ Utf8From(s, i + 4)
               [] c >= 241 /\ c <= 243 ->
                    Cont(s, i + 1) /\ Cont(s, i + 2) /\ Cont(s, i + 3) /\ Utf8From(s, i + 4)
               [] c = 244 ->
                    second(128, 143) /\ Cont(s, i + 2) /\ Cont(s, i + 3) /\ Utf8From(s, i + 4)
               [] OTHER -> FALSE

from_utf8_is_ok(s) == Utf8From(s, 1)

\* a lookup's result and whether it read outside the table
Looked(r, outside) == [tag |-> r.tag, val |-> r.val, over |-> outside]

\* strlen(s) for s pointing at offset start of the buffer: the lengths it
\* can return.  It reads until a NUL byte with no bound; when the buffer
\* has no NUL from start on it reads past the buffer's end, which is
\* undefined behaviour: it finds a zero byte some bytes later, or faults.
strlen(b, start) ==
    IF NulsIn(b, start, Len(b)) # {}
    THEN {SetMin(NulsIn(b, start, Len(b))) - start}
    ELSE {Len(b) - start + k : k \in 0..MaxOver} \cup {-1}

\* StringTable::get_slice(index): the outcomes it can have
get_slice(b, t, index) ==
    IF WGe(index, t.len) THEN {Looked(None, FALSE)}
    ELSE LET start == t.off + Num(index)
             buflen == t.len - Num(index)
         IN  { IF len < 0 THEN Looked([tag |-> "Fault", val |-> <<>>], TRUE)
               ELSE IF len > buflen
               THEN Looked(Panic("range end index out of range"), TRUE)
               ELSE Looked(Some(Slice(start, len)), len >= buflen) :
               len \in strlen(b, start) }

\* StringTable::get_string(index)
get_string(b, t, index) ==
    IF ~WGe(index, t.len)
    THEN LET start == t.off + Num(index)
             nuls == NulsIn(b, start, t.off + t.len)
         IN  IF nuls = {} THEN Looked(Panic("index out of bounds"), FALSE)
             ELSE LET len == SetMin(nuls) - start
                  IN  IF from_utf8_is_ok(SubSeq(b, start + 1, start + len))
                      THEN Looked(Some(Slice(start, len)), FALSE)
                      ELSE Looked(Panic("called Result::unwrap() on an Err value"), FALSE)
    ELSE Looked(None, FALSE)

---------------------------------------------------------------------------
(* DynamicTable (dynamic.rs).  The table is a slice of Dyn records: the    *)
(* offset of its first record and the number of records.                   *)

Dyn_tag(b, r) == Word(b, r, 8)
Dyn_value(b, r) == Word(b, r + 8, 8)

DynSlice(o, n) == [off |-> o, count |-> n]

\* DynamicTable::new keeping the last raw entry in the table
DynamicTable_new_KeepLast(b, s) ==
    LET len == s.len \div DynSize
    IN  IF len # 0 /\ ~WEq(Dyn_tag(b, s.off + (len - 1) * DynSize), 0)
        THEN Panic("assertion failed: dyntab[last].tag == 0")
        ELSE Ok(DynSlice(s.off, len))

\* DynamicTable::new dropping the last raw entry whatever its tag
DynamicTable_new_NoAssert(b, s) ==
    LET len == s.len \div DynSize
    IN  Ok(DynSlice(s.off, IF len # 0 THEN len - 1 ELSE len))

\* DynamicTable::new(elf, data) for the slice s of the buffer
DynamicTable_new(b, s) ==
    LET len == s.len \div DynSize
        last == len - 1
    IN  IF len # 0
        THEN IF ~WEq(Dyn_tag(b, s.off + last * DynSize), 0)
             THEN Panic("assertion failed: dyntab[last].tag == 0")
             ELSE Ok(DynSlice(s.off, last))
        ELSE Ok(DynSlice(s.off, len))

\* DynamicTable::table_raw: the Dyn records of the table, by their fields
table_raw(b, t) ==
    [i \in 1..t.count |->
        [tag |-> Dyn_tag(b, t.off + (i - 1) * DynSize),
         value |-> Dyn_value(b, t.off + (i - 1) * DynSize)]]

---------------------------------------------------------------------------
(* Lookups of the Elf by section name and segment kind (lib.rs).           *)

\* the arms 0..7 of SegmentKind::from_u32, by value
SegmentKindNamed == <<"Null", "Load", "Dynamic", "Interp", "Note", "Shlib", "Phdr", "Tls">>

\* SegmentKind::from_u32 with the arms of the reserved ranges before the
\* arms of the GNU values
SegmentKind_from_u32_RangesFirst(x) ==
    IF Fits(x) /\ Num(x) <= 7 THEN Variant(SegmentKindNamed[Num(x) + 1])
    ELSE IF x[4] >= 96 /\ x[4] <= 111 THEN Carrier("EnvSpecific", x)
    ELSE IF x[4] >= 112 /\ x[4] <= 127 THEN Carrier("CpuSpecific", x)
    ELSE Carrier("Unknown", x)

\* SegmentKind::from_u32 (segment.rs) on the 4 bytes of the field, low
\* byte first: 0x6464e550 is <<0x50, 0xe5, 0x64, 0x64>>, and the ranges
\* 0x60000000..=0x6fffffff and 0x70000000..=0x7fffffff are told by the
\* high byte.  The arms are tried in the order of the match.
SegmentKind_from_u32(x) ==
    IF Fits(x) /\ Num(x) <= 7 THEN Variant(SegmentKindNamed[Num(x) + 1])
    ELSE IF x = <<80, 229, 100, 100>> THEN Variant("Unwind")
    ELSE IF x = <<80, 229, 116, 100>> THEN Variant("EhFrame")
    ELSE IF x = <<81, 229, 116, 100>> THEN Variant("Stack")
    ELSE IF x = <<82, 229, 116, 100>> THEN Variant("Relro")
    ELSE IF x[4] >= 96 /\ x[4] <= 111 THEN Carrier("EnvSpecific", x)
    ELSE IF x[4] >= 112 /\ x[4] <= 127 THEN Carrier("CpuSpecific", x)
    ELSE Carrier("Unknown", x)

\* ".symtab", ".strtab", ".shstrtab"
SymtabName == <<46, 115, 121, 109, 116, 97, 98>>
StrtabName == <<46, 115, 116, 114, 116, 97, 98>>
ShstrtabName == <<46, 115, 104, 115, 116, 114, 116, 97, 98>>

\* the least value of a usize that does not fit: a word that does not fit
\* is at least this
Unfit == 256 * 65536

\* w / d for a usize word w
UsizeDiv(w, d) == IF Fits(w) THEN Num(w) \div d ELSE Unfit \div d

\* an Option<slice> from a checked range
SomeRange(r) == IF IsPanic(r) THEN r ELSE Some(r)

\* a lookup's result without the note of where it read
Plain(r) == [tag |-> r.tag, val |-> r.val]

\* Elf::get_slice
Elf_get_slice(b, offset, size) == IndexRange(Whole(b), offset, size)

\* Some(StringTable { table: self.get_slice(shdr.file_offset(), shdr.size()) })
\* for the section header shdr, or what `?` returned early
StringTable_of(b, shdr) ==
    IF shdr.tag # "Some" THEN shdr
    ELSE SomeRange(Elf_get_slice(b, Shdr_file_offset(b, shdr.val), Shdr_size(b, shdr.val)))

\* Elf::section_string_table
section_string_table(b) == StringTable_of(b, section_header(b, Ehdr_shdr_strtab_index(b)))

\* Section::name after `let string_table = elf.section_string_table()?`
Section_name_in(b, r, shstrtab) ==
    IF shstrtab.tag # "Some" THEN shstrtab
    ELSE IF WEq(Shdr_name_index(b, r), 0) THEN None
    ELSE Plain(get_string(b, shstrtab.val, Shdr_name_index(b, r)))

\* Section::name of the section whose header is at offset r
Section_name(b, r) == Section_name_in(b, r, section_string_table(b))

\* the names of the sections of an iterator, by index
SectionNames(b, it) ==
    [i \in 0..(IterCount(b, it) - 1) |-> Section_name(b, it.base + i * ShdrSize)]

\* find(|s| s.name() == Some(name)) over sections whose names are given:
\* the search ends at the first section whose name lookup panics or whose
\* name is the one sought
FirstNamed(b, name, base, names) ==
    LET ends == {i \in DOMAIN names :
                   \/ IsPanic(names[i])
                   \/ names[i].tag = "Some" /\ Bytes(b, names[i].val) = name}
    IN  IF ends = {} THEN None
        ELSE IF IsPanic(names[SetMin(ends)]) THEN names[SetMin(ends)]
        ELSE Some(base + SetMin(ends) * ShdrSize)

FindSectionIn(b, name, made) ==
    IF IsPanic(made) THEN made
    ELSE FirstNamed(b, name, made.val.base, SectionNames(b, made.val))

\* self.sections().find(|s| s.name() == Some(name))
FindSection(b, name) == FindSectionIn(b, name, section_headers(b))

\* Elf::string_table
string_table(b) == StringTable_of(b, FindSection(b, StrtabName))

\* Elf::symtab after the find: the table pointer is taken from
\* data[file_offset..], whose only check is file_offset <= len; the closure
\* runs to size / 24
Symtab_of(b, shdr) ==
    IF shdr.tag # "Some" THEN shdr
    ELSE IF ~WEq(Shdr_entry_size(b, shdr.val), SymSize)
    THEN Panic("assertion failed: shdr.entry_size() as usize == size_of::<Sym>()")
    ELSE LET from == IndexFrom(Whole(b), Shdr_file_offset(b, shdr.val))
         IN  IF IsPanic(from) THEN from
             ELSE [tag |-> "Iter",
                   val |-> NewIter("sym", from.off, UsizeDiv(Shdr_size(b, shdr.val), SymSize))]

\* Elf::symtab
symtab(b) == Symtab_of(b, FindSection(b, SymtabName))

\* Elf::get_slice_of::<Sym>: the checked range as size / 24 records
SymSlice(buf) ==
    IF IsPanic(buf) THEN buf
    ELSE [tag |-> "Syms", off |-> buf.off, count |-> buf.len \div SymSize]

get_slice_of(b, offset, size) == SymSlice(Elf_get_slice(b, offset, size))

\* SymbolTable::new(elf, data, strtab) of the arguments as evaluated
SymbolTable_new(syms, strtab) ==
    IF IsPanic(syms) THEN syms
    ELSE IF IsPanic(strtab) THEN strtab
    ELSE Some([data |-> syms, strtab |-> strtab])

\* Elf::symbol_table after the find: the records are those of shdr
SymbolTable_of(b, shdr, strtab) ==
    IF shdr.tag # "Some" THEN shdr
    ELSE SymbolTable_new(get_slice_of(b, Shdr_file_offset(b, shdr.val), Shdr_size(b, shdr.val)),
                         strtab)

\* Elf::symbol_table: the section it finds is the one named .strtab
symbol_table(b) == SymbolTable_of(b, FindSection(b, StrtabName), string_table(b))

\* the reserved section indices (section.rs)
SHN_UNDEF == 0
SHN_ABS == 65521
SHN_COMMON == 65522
SHN_XINDEX == 65535

\* the fields of a Sym at offset r before its value
Sym_name_index(b, r) == Word(b, r, 4)
Sym_info(b, r) == U8(b, r + 4)
Sym_other(b, r) == U8(b, r + 5)
Sym_section_index(b, r) == U16(b, r + 6)

\* Symbol::name of the symbol whose Sym is at offset r, after
\* `self.elf.string_table()?`: name_index() is the u32 as a usize
Symbol_name_in(b, r, strtab) ==
    IF strtab.tag # "Some" THEN strtab
    ELSE Plain(get_string(b, strtab.val, Sym_name_index(b, r) \o <<0, 0, 0, 0>>))

\* Symbol::section of the symbol whose Sym is at offset r
Symbol_section(b, r) == section(b, Sym_section_index(b, r))

\* segments().find(|sgmt| sgmt.kind() == SegmentKind::Dynamic), from i on
RECURSIVE FindDynamicFrom(_, _, _)
FindDynamicFrom(b, it, i) ==
    IF i >= IterCount(b, it) THEN None
    ELSE IF SegmentKind_from_u32(Phdr_kind(b, it.base + i * PhdrSize)) = Variant("Dynamic")
    THEN Some(it.base + i * PhdrSize)
    ELSE FindDynamicFrom(b, it, i + 1)

FindDynamic(b, made) == IF IsPanic(made) THEN made ELSE FindDynamicFrom(b, made.val, 0)

\* the closure of dynamic_table's map on its slice
SomeTable(tbl) == IF IsPanic(tbl) THEN tbl ELSE Some(tbl.val)

DynamicTable_of(b, range) ==
    IF IsPanic(range) THEN range ELSE SomeTable(DynamicTable_new(b, range))

DynamicTable_in(b, sgmt) ==
    IF sgmt.tag # "Some" THEN sgmt
    ELSE DynamicTable_of(b, Elf_get_slice(b, Phdr_file_offset(b, sgmt.val),
                                          Phdr_file_size(b, sgmt.val)))

\* Elf::dynamic_table
dynamic_table(b) == DynamicTable_in(b, FindDynamic(b, program_headers(b)))

---------------------------------------------------------------------------
(* The images of the Elf specification.                                    *)

\* an image: the header, the program header table at 64, the section
\* header table after it, the contents, cut or zero-filled to len bytes
ImageBytes(h, phdrs, shdrs, blob, len) ==
    Resize(EncEhdr(h) \o Flat([i \in 1..Len(phdrs) |-> EncPhdr(phdrs[i])])
                      \o Flat([i \in 1..Len(shdrs) |-> EncShdr(shdrs[i])]) \o blob,
           len)

PhTabOff == EhdrSize
ShTabOff(nph) == EhdrSize + nph * PhdrSize
TablesEnd(nph, nsh) == ShTabOff(nph) + nsh * ShdrSize

BadMagics ==
    {[ElfMagic EXCEPT ![k] = 0] : k \in 1..4}

\* header validation: every check of Elf::new passed or failed, the fields
\* Elf::new does not look at varied
HeaderImages ==
    { [fam |-> "hdr", h |-> [DefaultEhdr EXCEPT !.magic = m, !.class = c, !.data = d,
                              !.phentsize = pe, !.shentsize = se, !.phnum = n,
                              !.shnum = n, !.type = tm[1], !.machine = tm[2],
                              !.entry = tm[3]],
       phdrs |-> <<>>, shdrs |-> <<>>, blob |-> <<>>, len |-> l] :
        m \in {ElfMagic} \cup BadMagics, c \in {1, 2}, d \in {1, 2},
        pe \in {PhdrSize, 32}, se \in {ShdrSize, 40}, n \in {0, MaxNum},
        tm \in {<<2, 62, 4096>>, <<65025, 243, -16>>},
        l \in {0, 3, EhdrSize - 1, EhdrSize, EhdrSize + 8} }

Default(rec, n) == [i \in 1..n |-> rec]

\* header tables: MaxNum records in each table, the header's offsets and
\* counts pointing inside, at the end of and past the buffer
TableImages ==
    { [fam |-> "tab", h |-> [DefaultEhdr EXCEPT !.phoff = po, !.phnum = pn,
                              !.shoff = so, !.shnum = sn],
       phdrs |-> Default(DefaultPhdr, MaxNum), shdrs |-> Default(DefaultShdr, MaxNum),
       blob |-> <<>>, len |-> TablesEnd(MaxNum, MaxNum) + 8 * pad] :
        pad \in 0..MaxPad,
        po \in {PhTabOff, TablesEnd(MaxNum, MaxNum) - PhdrSize,
                TablesEnd(MaxNum, MaxNum), TablesEnd(MaxNum, MaxNum) + 16, -8},
        pn \in 0..MaxNum,
        so \in {ShTabOff(MaxNum), TablesEnd(MaxNum, MaxNum) - ShdrSize,
                TablesEnd(MaxNum, MaxNum), TablesEnd(MaxNum, MaxNum) + 16, -8},
        sn \in 0..MaxNum }

\* file ranges: one section or segment whose offset and size lie inside, at
\* the end of, past the buffer, or near 2^64
FileOffsets(l) == {0, 8, l - 4, l, l + 1, -8}
FileSizes(l) == {0, 4, 5, l, -1, -8}

RangeImages ==
    { [fam |-> "range",
       h |-> [DefaultEhdr EXCEPT !.phoff = PhTabOff, !.phnum = MaxNum,
                                 !.shoff = ShTabOff(MaxNum), !.shnum = MaxNum],
       phdrs |-> [i \in 1..MaxNum |->
                    IF which = "seg" /\ i = k
                    THEN [DefaultPhdr EXCEPT !.offset = o, !.filesz = z] ELSE DefaultPhdr],
       shdrs |-> [i \in 1..MaxNum |->
                    IF which = "sec" /\ i = k
                    THEN [DefaultShdr EXCEPT !.offset = o, !.size = z] ELSE DefaultShdr],
       blob |-> [i \in 1..8 |-> 160 + i], len |-> TablesEnd(MaxNum, MaxNum) + 8] :
        which \in {"sec", "seg"}, k \in 1..MaxNum,
        o \in FileOffsets(TablesEnd(MaxNum, MaxNum) + 8),
        z \in FileSizes(TablesEnd(MaxNum, MaxNum) + 8) }

\* named sections: the null section, .shstrtab, .symtab and .strtab, and a
\* dynamic segment, each with its contents; one of them at a time has its
\* header fields changed
NamedBlob ==
    <<0>> \o SymtabName \o <<0>> \o StrtabName \o <<0>> \o ShstrtabName \o <<0>> \o Zeros(5)
    \o <<0, 97, 98, 0>> \o Zeros(4)
    \o EncDyn([tag |-> 1, value |-> 1]) \o EncDyn([tag |-> 0, value |-> 0])
    \o EncSym([name |-> 0, info |-> 0, other |-> 0, shndx |-> 0, value |-> 0, size |-> 0])
    \o EncSym([name |-> 1, info |-> 18, other |-> 0, shndx |-> 1, value |-> 4096, size |-> 16])

\* three more symbols, of the reserved section indices ABS, COMMON, XINDEX
ReservedSyms ==
    EncSym([name |-> 2, info |-> 17, other |-> 0, shndx |-> SHN_ABS, value |-> 8, size |-> 0])
    \o EncSym([name |-> 0, info |-> 17, other |-> 0, shndx |-> SHN_COMMON, value |-> 8,
               size |-> 4])
    \o EncSym([name |-> 1, info |-> 16, other |-> 0, shndx |-> SHN_XINDEX, value |-> 4096,
               size |-> 8])

ShstrtabOff == TablesEnd(1, 4)
StrtabOff == ShstrtabOff + 32
DynOff == StrtabOff + 8
SymOff == DynOff + 32
NamedLen == SymOff + 48

NamedBase ==
    [shstrndx |-> 1, more |-> 0,
     shs |-> [DefaultShdr EXCEPT !.name = 17, !.type = 3, !.offset = ShstrtabOff, !.size = 27],
     sym |-> [DefaultShdr EXCEPT !.name = 1, !.type = 2, !.offset = SymOff, !.size = 48,
                                 !.entsize = 24],
     str |-> [DefaultShdr EXCEPT !.name = 9, !.type = 3, !.offset = StrtabOff, !.size = 4],
     dyn |-> [DefaultPhdr EXCEPT !.type = 2, !.offset = DynOff, !.filesz = 32]]

NamedVariants ==
    { [NamedBase EXCEPT !.sym.offset = o, !.sym.size = z, !.sym.entsize = e, !.sym.name = n] :
        o \in {SymOff, NamedLen, NamedLen + 8},
        z \in {0, 48, 72, -24}, e \in {24, 16}, n \in {1, 9} }
    \cup { [NamedBase EXCEPT !.str.size = z, !.str.name = n] :
             z \in {4, 48, 96, -8}, n \in {9, 17} }
    \cup { [NamedBase EXCEPT !.shstrndx = x, !.shs.size = z] :
             x \in {1, 0, 4}, z \in {27, 8, 200} }
    \cup { [NamedBase EXCEPT !.more = 72, !.sym.size = 120] }
    \cup { [NamedBase EXCEPT !.dyn.type = t, !.dyn.offset = o, !.dyn.filesz = z] :
             t \in {2, 1}, o \in {DynOff, NamedLen}, z \in {0, 16, 32, 88, -16} }

NamedImages ==
    { [fam |-> "named",
       h |-> [DefaultEhdr EXCEPT !.phoff = PhTabOff, !.phnum = 1, !.shoff = ShTabOff(1),
                                 !.shnum = 4, !.shstrndx = v.shstrndx],
       phdrs |-> <<v.dyn>>,
       shdrs |-> <<[DefaultShdr EXCEPT !.type = 0, !.flags = 0, !.addralign = 0],
                   v.shs, v.sym, v.str>>,
       blob |-> NamedBlob \o ReservedSyms, len |-> NamedLen + v.more] : v \in NamedVariants }

ElfImages == HeaderImages \cup TableImages \cup RangeImages \cup NamedImages

NoPrev == [kind |-> "none", seq |-> <<>>]

NoTable == [tag |-> "NoTable", off |-> 0, len |-> 0]

Quiet ==
    /\ elf = "none" /\ op = "init" /\ arg = 0 /\ res = None
    /\ iter = NoIter /\ out = <<>> /\ prev = NoPrev
    /\ table = NoTable /\ oob = FALSE

Init ==
    /\ img \in ElfImages
    /\ data = ImageBytes(img.h, img.phdrs, img.shdrs, img.blob, img.len)
    /\ aligned \in (IF img.fam = "hdr" THEN BOOLEAN ELSE {TRUE})
    /\ Quiet

---------------------------------------------------------------------------
(* The operations.                                                         *)

Call(name, a, r) ==
    /\ op' = name
    /\ arg' = a
    /\ res' = (IF "over" \in DOMAIN r THEN [tag |-> r.tag, val |-> r.val] ELSE r)
    /\ oob' = (IF "over" \in DOMAIN r THEN r.over ELSE FALSE)

\* the caller drops the iterator it holds before it calls another method
DropIter == iter' = NoIter /\ out' = <<>> /\ prev' = NoPrev

\* and the string table it holds
DropTable == table' = NoTable

\* Elf::new(data)
New ==
    /\ elf = "none"
    /\ Call("new", 0, Elf_new(data, aligned))
    /\ elf' = (IF Elf_new(data, aligned).tag = "Ok" THEN "ok" ELSE "err")
    /\ UNCHANGED <<table, data, aligned, img, iter, out, prev>>

\* the accessors of the FileHeader of an Elf
Header ==
    /\ elf = "ok"
    /\ Call("header", 0, Ok(FileHeaderView(data)))
    /\ DropIter
    /\ DropTable
    /\ UNCHANGED <<data, aligned, img, elf>>

\* a call that makes an iterator: the closure starts at index 0; the
\* records of a finished iteration are remembered for comparison
Start(name, made) ==
    /\ Call(name, 0, IF IsPanic(made) THEN made ELSE Ok("iterator"))
    /\ iter' = (IF IsPanic(made) THEN NoIter ELSE made.val)
    /\ out' = <<>>
    /\ prev' = (IF iter.done THEN [kind |-> iter.kind, seq |-> out] ELSE prev)

ProgramHeaders ==
    /\ elf = "ok"
    /\ Start("program_headers", program_headers(data))
    /\ DropTable
    /\ UNCHANGED <<data, aligned, img, elf>>

SectionHeaders ==
    /\ elf = "ok"
    /\ Start("section_headers", section_headers(data))
    /\ DropTable
    /\ UNCHANGED <<data, aligned, img, elf>>

\* one call of the iterator closure.  A record outside the buffer is
\* undefined behaviour of &*table.add(index): the reference is made and
\* yielded as if it were valid, or the program faults.  The caller is
\* followed up to the first such record.
IterNext ==
    /\ iter.kind # "none"
    /\ ~iter.done
    /\ \A i \in 1..Len(out) : InBuffer(data, out[i], Stride(iter.kind))
    /\ IF iter.index < IterCount(data, iter)
       THEN \/ /\ Call("next", 0, Some(IterRecord(iter)))
               /\ out' = Append(out, IterRecord(iter))
               /\ iter' = [iter EXCEPT !.index = @ + 1]
            \/ /\ ~InBuffer(data, IterRecord(iter), Stride(iter.kind))
               /\ Call("next", 0, [tag |-> "Fault", val |-> IterRecord(iter)])
               /\ out' = out
               /\ iter' = NoIter
       ELSE /\ Call("next", 0, None)
            /\ out' = out
            /\ iter' = [iter EXCEPT !.done = TRUE]
    /\ UNCHANGED <<table, data, aligned, img, elf, prev>>

\* elf.section(i) and then Section::file_data
SectionFileData ==
    /\ elf = "ok"
    /\ \E i \in 0..MaxNum :
         LET sec == section(data, i)
         IN  Call("section_file_data", i,
                  IF sec.tag = "Some" THEN Section_file_data(data, sec.val) ELSE sec)
    /\ DropIter
    /\ DropTable
    /\ UNCHANGED <<data, aligned, img, elf>>

\* elf.segments().nth(i) and then Segment::file_data
SegmentFileData ==
    /\ elf = "ok"
    /\ \E i \in 0..MaxNum :
         LET seg == segment(data, i)
         IN  Call("segment_file_data", i,
                  IF seg.tag = "Some" THEN Segment_file_data(data, seg.val) ELSE seg)
    /\ DropIter
    /\ DropTable
    /\ UNCHANGED <<data, aligned, img, elf>>

\* the StringTable the caller keeps from a call
Keep(r) == IF r.tag = "Some" THEN r.val ELSE NoTable

CallTable(name, r) == Call(name, 0, r) /\ table' = Keep(r)

\* Elf::section_string_table
SectionStringTable ==
    /\ elf = "ok"
    /\ CallTable("section_string_table", section_string_table(data))
    /\ DropIter
    /\ UNCHANGED <<data, aligned, img, elf>>

\* Elf::string_table
StringTable ==
    /\ elf = "ok"
    /\ CallTable("string_table", string_table(data))
    /\ DropIter
    /\ UNCHANGED <<data, aligned, img, elf>>

\* a call that makes an iterator or returns None
StartIfSome(name, made) ==
    IF made.tag = "None" THEN Call(name, 0, None) /\ DropIter ELSE Start(name, made)

\* Elf::symtab
Symtab ==
    /\ elf = "ok"
    /\ StartIfSome("symtab", symtab(data))
    /\ DropTable
    /\ UNCHANGED <<data, aligned, img, elf>>

\* Elf::symbol_table
SymbolTable ==
    /\ elf = "ok"
    /\ Call("symbol_table", 0, symbol_table(data))
    /\ DropIter
    /\ DropTable
    /\ UNCHANGED <<data, aligned, img, elf>>

\* Elf::dynamic_table
DynamicTable ==
    /\ elf = "ok"
    /\ Call("dynamic_table", 0, dynamic_table(data))
    /\ DropIter
    /\ DropTable
    /\ UNCHANGED <<data, aligned, img, elf>>

\* the index as the usize the caller passes
Index(i) == Enc(i, 8)

\* StringTable::get_slice(i)
GetSlice ==
    /\ table # NoTable
    /\ \E i \in 0..(MaxStrLen + 1) : \E r \in get_slice(data, table, Index(i)) :
         Call("get_slice", i, r)
    /\ DropIter
    /\ UNCHANGED <<table, data, aligned, img, elf>>

\* StringTable::get_string(i)
GetString ==
    /\ table # NoTable
    /\ \E i \in 0..(MaxStrLen + 1) : Call("get_string", i, get_string(data, table, Index(i)))
    /\ DropIter
    /\ UNCHANGED <<table, data, aligned, img, elf>>

\* Symbol::name of the i-th record that the symtab iterator yielded, the
\* Symbol being made by SymbolTable::new(elf, syms, _).find(_); the string
\* table the call made is kept for comparison
SymbolNameWith(strtab) ==
    /\ \E i \in 1..Len(out) :
         /\ InBuffer(data, out[i], SymSize)
         /\ Call("symbol_name", i, Symbol_name_in(data, out[i], strtab))
    /\ table' = Keep(strtab)

SymbolName ==
    /\ elf = "ok"
    /\ iter.kind = "sym"
    /\ SymbolNameWith(string_table(data))
    /\ UNCHANGED <<data, aligned, img, elf, iter, out, prev>>

\* Elf::section(i), Elf::section_header(i)
Section ==
    /\ elf = "ok"
    /\ \E i \in 0..(MaxNum + 3) : Call("section", i, section(data, i))
    /\ DropIter
    /\ DropTable
    /\ UNCHANGED <<data, aligned, img, elf>>

\* Symbol::section of the i-th record that the symtab iterator yielded
SymbolSection ==
    /\ elf = "ok"
    /\ iter.kind = "sym"
    /\ \E i \in 1..Len(out) :
         /\ InBuffer(data, out[i], SymSize)
         /\ Call("symbol_section", i, Symbol_section(data, out[i]))
    /\ DropTable
    /\ UNCHANGED <<data, aligned, img, elf, iter, out, prev>>

Next ==
    \/ New
    \/ Header
    \/ ProgramHeaders
    \/ SectionHeaders
    \/ IterNext
    \/ SectionFileData
    \/ SegmentFileData
    \/ SectionStringTable
    \/ StringTable
    \/ Symtab
    \/ SymbolTable
    \/ DynamicTable
    \/ GetSlice
    \/ GetString
    \/ SymbolName
    \/ SymbolSection
    \/ Section

Spec == Init /\ [][Next]_vars

---------------------------------------------------------------------------
(* What the image was written to say, in unbounded integers: a field value *)
(* v < 0 is the number 2^64 + v, larger than every buffer.                 *)

\* offset + size <= len
RangeInside(offset, size, len) ==
    offset >= 0 /\ size >= 0 /\ offset + size <= len

\* the first check of Elf::new's stated order that the buffer fails
FailedCheck ==
    IF ~aligned \/ Len(data) < 64 THEN "buffer"
    ELSE IF img.h.magic # <<127, 69, 76, 70>> THEN "magic"
    ELSE IF img.h.class # 2 THEN "class"
    ELSE IF img.h.phentsize # 56 THEN "phdr stride"
    ELSE IF img.h.shentsize # 64 THEN "shdr stride"
    ELSE "none"

\* the header's tables are where the image put them, inside the buffer
TablesAsWritten ==
    /\ img.h.phoff = PhTabOff
    /\ img.h.shoff = ShTabOff(Len(img.phdrs))
    /\ img.h.phnum <= Len(img.phdrs)
    /\ img.h.shnum <= Len(img.shdrs)
    /\ Len(data) >= TablesEnd(Len(img.phdrs), Len(img.shdrs))

---------------------------------------------------------------------------
\* C1: Elf::new returns Ok exactly when the buffer is aligned, at least 64
\* bytes long, starts with 7F 45 4C 46, has class byte 2, program header
\* entry size 56 and section header entry size 64, whatever the other
\* fields are; and on an Elf every FileHeader accessor returns the value
\* its field of the buffer encodes.
C1_NewOkIffHeaderValid ==
    /\ op = "new" =>
         ( res.tag = "Ok" <=>
             /\ aligned
             /\ Len(data) >= 64
             /\ SubSeq(data, 1, 4) = <<127, 69, 76, 70>>
             /\ data[5] = 2
             /\ img.h.phentsize = 56
             /\ img.h.shentsize = 64 )
    /\ op = "header" =>
         /\ res.val.magic = img.h.magic
         /\ res.val.class = Class_from_u8(img.h.class)
         /\ res.val.data = Data_from_u8(img.h.data)
         /\ res.val.header_version = Version_from_u8(img.h.hversion)
         /\ res.val.os_abi = OsAbi_from_u8(img.h.osabi)
         /\ res.val.os_abi_version = img.h.abiversion
         /\ res.val.file_type = ElfType_from_u16(img.h.type)
         /\ res.val.machine = Machine_from_u16(img.h.machine)
         /\ res.val.file_version = Version_from_u32(Enc(img.h.version, 4))
         /\ res.val.entry_point = Enc(img.h.entry, 8)
         /\ res.val.phdr_offset = Enc(img.h.phoff, 8)
         /\ res.val.shdr_offset = Enc(img.h.shoff, 8)
         /\ res.val.phdr_num = img.h.phnum
         /\ res.val.shdr_num = img.h.shnum
         /\ res.val.shdr_strtab_index = img.h.shstrndx

\* an Elf was built from a header whose unchecked fields are unusual, and
\* its accessors were read
C1_Witness ==
    /\ op = "header"
    /\ img.fam = "hdr"
    /\ img.h.machine = 243
    /\ img.h.entry = -16
    /\ img.h.phnum = MaxNum
    /\ res.val.file_type = Carrier("EnvSpecific", 65025)

---------------------------------------------------------------------------
(* Reference buffers, one failing each check of Elf::new alone.            *)

GoodHeader == EncEhdr(DefaultEhdr)

RefError(check) ==
    CASE check = "buffer" -> Elf_new(SubSeq(GoodHeader, 1, 63), TRUE)
      [] check = "magic" -> Elf_new(EncEhdr([DefaultEhdr EXCEPT !.magic = <<127, 69, 76, 0>>]), TRUE)
      [] check = "class" -> Elf_new(EncEhdr([DefaultEhdr EXCEPT !.class = 1]), TRUE)
      [] check = "phdr stride" -> Elf_new(EncEhdr([DefaultEhdr EXCEPT !.phentsize = 32]), TRUE)
      [] check = "shdr stride" -> Elf_new(EncEhdr([DefaultEhdr EXCEPT !.shentsize = 40]), TRUE)

Checks == {"buffer", "magic", "class", "phdr stride", "shdr stride"}

\* check_buffer answers the buffer and the magic check together
CheckGroup(check) == IF check = "magic" THEN "buffer" ELSE check

\* C2 as stated: a failed construction returns an error that differs from
\* the error of every other check (buffer, magic, class, the two strides),
\* and makes no Elf.
C2_ErrorTellsEveryCheckApart ==
    op = "new" /\ FailedCheck # "none" =>
        /\ res.tag = "Err"
        /\ elf = "err"
        /\ \A c \in Checks : c # FailedCheck => RefError(c) # res

\* C2 amended: a failed construction returns an error and makes no Elf; the
\* error is "invalid ELF" for a too-small, misaligned or wrong-magic buffer
\* alike, and differs between that group, the class check, the program
\* header stride check and the section header stride check.
C2_ErrorTellsCheckGroupsApart ==
    op = "new" /\ FailedCheck # "none" =>
        /\ res.tag = "Err"
        /\ elf = "err"
        /\ \A c \in Checks :
             (RefError(c) = res) <=> (CheckGroup(c) = CheckGroup(FailedCheck))

\* a magic mismatch in an aligned, long enough buffer was reported
C2_Witness ==
    /\ op = "new"
    /\ FailedCheck = "magic"
    /\ img.h.class = 1
    /\ res = Err("invalid ELF")

---------------------------------------------------------------------------
\* the table a header-table iterator or call is about, as the image's
\* header states it: offset, count, record size
Stated(kind) ==
    IF kind = "phdr" THEN [off |-> img.h.phoff, num |-> img.h.phnum, stride |-> 56]
    ELSE [off |-> img.h.shoff, num |-> img.h.shnum, stride |-> 64]

TableOutside(t) == ~RangeInside(t.off, t.num * t.stride, Len(data))

\* C3: when the header-table offset exceeds the buffer length, or count x
\* stride exceeds the bytes after the offset, program_headers() /
\* section_headers() fails (it panics in its slicing and makes no
\* iterator); and no iterator of either ever yields a record that lies
\* partly or wholly outside the buffer.
C3_TableBoundsCheckedAtConstruction ==
    /\ op = "program_headers" /\ TableOutside(Stated("phdr")) =>
         res.tag = "Panic" /\ iter = NoIter
    /\ op = "section_headers" /\ TableOutside(Stated("shdr")) =>
         res.tag = "Panic" /\ iter = NoIter
    /\ iter.kind \in {"phdr", "shdr"} =>
         \A i \in 1..Len(out) : out[i] + Stated(iter.kind).stride <= Len(data)

\* section_headers() was called with an offset inside the buffer and a
\* count whose records do not fit after it
C3_Witness ==
    /\ op = "section_headers"
    /\ img.h.shoff >= 0 /\ img.h.shoff < Len(data)
    /\ img.h.shnum * 64 > Len(data) - img.h.shoff
    /\ res.tag = "Panic"

---------------------------------------------------------------------------
\* the section (segment) header the image wrote for index i: its offset
\* and size fields
StatedRange(i) ==
    IF op = "section_file_data"
    THEN [off |-> img.shdrs[i + 1].offset, size |-> img.shdrs[i + 1].size]
    ELSE [off |-> img.phdrs[i + 1].offset, size |-> img.phdrs[i + 1].filesz]

StatedCount == IF op = "section_file_data" THEN img.h.shnum ELSE img.h.phnum

\* C5: Section::file_data and Segment::file_data return exactly the bytes
\* buffer[file_offset .. file_offset + size] when file_offset + size <=
\* buffer length, and otherwise reject the request (panic) without taking
\* a slice, also when file_offset + size is 2^64 or more.
C5_FileDataInsideBufferOrRejected ==
    op \in {"section_file_data", "segment_file_data"} /\ TablesAsWritten
        /\ arg < StatedCount =>
        LET r == StatedRange(arg)
        IN  IF RangeInside(r.off, r.size, Len(data))
            THEN /\ res = Slice(r.off, r.size)
                 /\ Bytes(data, res) = [k \in 1..r.size |-> data[r.off + k]]
            ELSE res.tag = "Panic"

\* file_data was asked of a section whose offset + size is exactly 2^64
C5_Witness ==
    /\ op = "section_file_data"
    /\ TablesAsWritten
    /\ arg < img.h.shnum
    /\ img.shdrs[arg + 1].offset = 8
    /\ img.shdrs[arg + 1].size = -8
    /\ res.tag = "Panic"

---------------------------------------------------------------------------
\* C6: the records of a section_headers() / program_headers() iterator are
\* the ones at table offset + i x stride, in order, never more than the
\* declared count; a finished iteration has yielded exactly the declared
\* count, also when more bytes follow the table; and it has yielded the
\* same records in the same order as the finished iteration before it over
\* the same table.
C6_IterationRestartableAndBounded ==
    iter.kind \in {"phdr", "shdr"} =>
        LET t == Stated(iter.kind)
        IN  /\ Len(out) <= t.num
            /\ \A i \in 1..Len(out) : out[i] = t.off + (i - 1) * t.stride
            /\ iter.done => Len(out) = t.num
            /\ iter.done /\ prev.kind = iter.kind => out = prev.seq

\* a second iteration over a section header table with fewer declared
\* records than the buffer has room for has finished
C6_Witness ==
    /\ iter.kind = "shdr"
    /\ iter.done
    /\ prev.kind = "shdr"
    /\ img.h.shnum = 1
    /\ out = <<img.h.shoff>>
    /\ Len(data) >= img.h.shoff + 2 * 64

---------------------------------------------------------------------------
\* the image's third section is the one symtab() finds: the section name
\* table is whole and the section's name index is that of ".symtab"
SymtabAsWritten ==
    /\ img.fam = "named"
    /\ img.h.shstrndx = 1
    /\ img.shdrs[2].size = 27
    /\ img.shdrs[3].name = 1
    /\ img.shdrs[3].entsize = SymSize

\* C4: every range derived from a header (string table, symbol table,
\* dynamic table) whose offset + size exceeds the buffer length is rejected
\* where the range is computed: a table that a call returned lies inside
\* the buffer, symtab() of a .symtab section whose offset + size exceeds
\* the buffer length is rejected, and neither symtab() nor symbol_table()
\* yields a Sym record that extends past the end of the buffer.
C4_DerivedRangesRejectedBeforeRead ==
    /\ iter.kind = "sym" => \A i \in 1..Len(out) : InBuffer(data, out[i], SymSize)
    /\ op = "symtab" /\ SymtabAsWritten
          /\ ~RangeInside(img.shdrs[3].offset, img.shdrs[3].size, Len(data))
          => res.tag = "Panic"
    /\ op \in {"section_string_table", "string_table"} /\ res.tag = "Some"
          => res.val.off + res.val.len <= Len(data)
    /\ op = "symbol_table" /\ res.tag = "Some"
          => res.val.data.off + res.val.data.count * SymSize <= Len(data)
    /\ op = "dynamic_table" /\ res.tag = "Some"
          => res.val.off + res.val.count * DynSize <= Len(data)

\* symtab() of a .symtab section that starts inside the buffer and ends past
\* it has yielded a Sym record that extends past the end of the buffer
C4_Witness ==
    /\ iter.kind = "sym"
    /\ SymtabAsWritten
    /\ img.shdrs[3].offset = SymOff /\ img.shdrs[3].size = 72
    /\ Len(out) = 3
    /\ ~InBuffer(data, out[3], SymSize)

\* the ranges C4 names that the code does check: a string table, a symbol
\* table or a dynamic table that a call returned lies inside the buffer
CheckedRangesInsideBuffer ==
    /\ op \in {"section_string_table", "string_table"} /\ res.tag = "Some"
          => res.val.off + res.val.len <= Len(data)
    /\ op = "symbol_table" /\ res.tag = "Some"
          => res.val.data.off + res.val.data.count * SymSize <= Len(data)
    /\ op = "dynamic_table" /\ res.tag = "Some"
          => res.val.off + res.val.count * DynSize <= Len(data)

---------------------------------------------------------------------------
(* The StringTable specification: StringTable::new on a slice at the start *)
(* of a small buffer, then lookups.                                        *)

\* NUL, 'a', and the two bytes of U+00E9, each of which alone is not UTF-8
StrBytes == {0, 97, 195, 169}

InitStr ==
    /\ data \in SeqsUpTo(StrBytes, MaxStrLen)
    /\ aligned = TRUE
    /\ img = [fam |-> "str"]
    /\ elf = "none" /\ op = "init" /\ arg = 0 /\ res = None
    /\ iter = NoIter /\ out = <<>> /\ prev = NoPrev /\ oob = FALSE
    /\ table \in {Slice(0, n) : n \in 0..Len(data)}

NextStr == GetSlice \/ GetString

SpecStr == InitStr /\ [][NextStr]_vars

\* the table's bytes from index i on, and the positions of its NULs there
TableBytes == SubSeq(data, table.off + 1, table.off + table.len)
NulsFrom(i) == {z \in (i + 1)..table.len : TableBytes[z] = 0}
UpToNul(i) == SubSeq(TableBytes, i + 1, SetMin(NulsFrom(i)) - 1)
IsLookup == op \in {"get_slice", "get_string"}

\* C7: a lookup (get_slice, get_string) at an index >= the table length,
\* the length itself included, returns absence; at an index below it with
\* a NUL at or after the index it returns exactly the bytes from the index
\* up to the first NUL, without the NUL.
C7_LookupReturnsBytesUpToNul ==
    IsLookup =>
        /\ arg >= table.len => res = None
        /\ arg < table.len /\ NulsFrom(arg) # {} =>
             /\ res.tag = "Some"
             /\ res.val.tag = "Slice"
             /\ Bytes(data, res.val) = UpToNul(arg)

\* C8: a lookup at an index below the table length with no NUL between
\* the index and the table's end returns the bytes from the index to the
\* table's end, reads no byte at a position >= the table length and does
\* not abort.
C8_LookupStopsAtTableEnd ==
    IsLookup /\ arg < table.len /\ NulsFrom(arg) = {} =>
        /\ res.tag = "Some"
        /\ res.val.tag = "Slice"
        /\ Bytes(data, res.val) = SubSeq(TableBytes, arg + 1, table.len)
        /\ ~oob

\* C9: get_string at an index below the table length whose bytes up to
\* the NUL are not valid text does not abort: it returns an outcome that
\* is neither a string nor absence.
C9_InvalidTextIsAnOutcome ==
    op = "get_string" /\ arg < table.len /\ NulsFrom(arg) # {}
        /\ ~from_utf8_is_ok(UpToNul(arg)) =>
        res.tag \notin {"Panic", "Fault", "Some", "None"}

\* get_string at the 0xA9 byte before the NUL of <<0xA9, 0>> aborted
C7_Witness ==
    /\ op = "get_string" /\ arg = 0
    /\ data = <<169, 0>> /\ table = Slice(0, 2)
    /\ res.tag = "Panic"

\* get_slice at the only byte of a table without NUL read past its end
C8_Witness ==
    /\ op = "get_slice" /\ arg = 0
    /\ data = <<97>> /\ table = Slice(0, 1)
    /\ oob
    /\ res.tag \in {"Panic", "Fault"}

\* get_string at the lone lead byte 0xC3 before a NUL aborted
C9_Witness ==
    /\ op = "get_string" /\ arg = 1
    /\ data = <<0, 195, 0>> /\ table = Slice(0, 3)
    /\ res = Panic("called Result::unwrap() on an Err value")

\* what does hold of the lookups: get_slice, and get_string on valid text
LookupOfValidText ==
    IsLookup /\ (op = "get_string" /\ arg < table.len /\ NulsFrom(arg) # {}
                    => from_utf8_is_ok(UpToNul(arg)))
        => C7_LookupReturnsBytesUpToNul

---------------------------------------------------------------------------
(* The DynamicTable specification: DynamicTable::new on the raw bytes of a *)
(* dynamic segment, then table_raw.                                        *)

\* DT_NULL, DT_NEEDED, DT_STRTAB and a tag near 2^64 (a negative isize)
DynTags == {0, 1, 5, -3}
DynValues == {0, 5, 4096}
DynEntries == {[tag |-> t, value |-> v] : t \in DynTags, v \in DynValues}

InitDyn ==
    /\ \E raw \in SeqsUpTo(DynEntries, MaxDyn) : \E tail \in {0, 8} :
         /\ img = [fam |-> "dyn", entries |-> raw]
         /\ data = Flat([i \in 1..Len(raw) |-> EncDyn(raw[i])]) \o Zeros(tail)
    /\ aligned = TRUE
    /\ elf = "ok" /\ op = "init" /\ arg = 0 /\ res = None
    /\ iter = NoIter /\ out = <<>> /\ prev = NoPrev /\ oob = FALSE
    /\ table = NoTable

\* DynamicTable::new(elf, data)
DynNew ==
    /\ op = "init"
    /\ Call("dynamic_new", 0, DynamicTable_new(data, Whole(data)))
    /\ UNCHANGED <<table, data, aligned, img, elf, iter, out, prev>>

\* DynamicTable::table_raw on the table made
TableRaw ==
    /\ op = "dynamic_new"
    /\ res.tag = "Ok"
    /\ Call("table_raw", 0, Ok(table_raw(data, res.val)))
    /\ UNCHANGED <<table, data, aligned, img, elf, iter, out, prev>>

NextDyn == DynNew \/ TableRaw

SpecDyn == InitDyn /\ [][NextDyn]_vars

\* the raw entries as Dyn records
RawDyn(raw) == [i \in 1..Len(raw) |-> [tag |-> Enc(raw[i].tag, 8), value |-> Enc(raw[i].value, 8)]]

\* C10: for raw segment bytes of n >= 1 entries whose last entry has tag
\* 0, DynamicTable::new exposes exactly the first n - 1 entries, in their
\* order, with tag and value unchanged; for no raw entry it exposes an
\* empty table.
C10_TerminatorExcluded ==
    LET raw == img.entries
        n == Len(raw)
    IN  /\ op = "dynamic_new" /\ (n = 0 \/ raw[n].tag = 0) =>
             res = Ok(DynSlice(0, IF n = 0 THEN 0 ELSE n - 1))
        /\ op = "table_raw" =>
             /\ n = 0 \/ raw[n].tag = 0
             /\ res.val = SubSeq(RawDyn(raw), 1, n - 1)

\* the raw entries [(NEEDED, 5), (STRTAB, 0x1000), (NULL, 0)] expose the
\* first two
C10_Witness ==
    /\ op = "table_raw"
    /\ img.entries = <<[tag |-> 1, value |-> 5], [tag |-> 5, value |-> 4096],
                       [tag |-> 0, value |-> 0]>>
    /\ Len(res.val) = 2
    /\ res.val[1] = [tag |-> Enc(1, 8), value |-> Enc(5, 8)]
    /\ res.val[2] = [tag |-> Enc(5, 8), value |-> Enc(4096, 8)]

---------------------------------------------------------------------------
\* the positions of the raw entries whose tag is 0
NullsOf(raw) == {i \in 1..Len(raw) : raw[i].tag = 0}

\* C11: a raw tag of 0 ends the logical table: no entry of the exposed
\* table (table_raw) has tag 0, and no raw entry at or after the first
\* entry of tag 0 is exposed, also when the segment ends with several
\* entries of tag 0.
C11_NullEndsExposedTable ==
    op = "table_raw" =>
        /\ \A i \in 1..Len(res.val) : res.val[i].tag # Enc(0, 8)
        /\ NullsOf(img.entries) # {} => Len(res.val) < SetMin(NullsOf(img.entries))

\* the raw entries [(NEEDED, 5), (NULL, 0), (NULL, 0)] expose (NEEDED, 5)
\* and the first (NULL, 0)
C11_Witness ==
    /\ op = "table_raw"
    /\ img.entries = <<[tag |-> 1, value |-> 5], [tag |-> 0, value |-> 0],
                       [tag |-> 0, value |-> 0]>>
    /\ Len(res.val) = 2
    /\ res.val[2].tag = Enc(0, 8)

\* C12: when the raw entry count is not zero and the last raw entry's tag
\* is not 0, DynamicTable::new makes no table (it panics): a table is only
\* ever exposed of raw entries that end with an entry of tag 0, or of none.
C12_UnterminatedTableRejected ==
    LET raw == img.entries
        n == Len(raw)
    IN  /\ op = "dynamic_new" /\ n # 0 /\ raw[n].tag # 0 => res.tag = "Panic"
        /\ op = "dynamic_new" /\ res.tag = "Ok" => n = 0 \/ raw[n].tag = 0
        /\ op = "table_raw" => n = 0 \/ raw[n].tag = 0

\* DynamicTable::new of [(NULL, 0), (NEEDED, 5)] panicked
C12_Witness ==
    /\ op = "dynamic_new"
    /\ img.entries = <<[tag |-> 0, value |-> 0], [tag |-> 1, value |-> 5]>>
    /\ res.tag = "Panic"

\* Elf::dynamic_table of a dynamic segment of the named images returns a
\* table only when the segment's last entry has tag 0
DynamicTableOfElfTerminated ==
    op = "dynamic_table" /\ res.tag = "Some" /\ img.fam = "named" =>
        \/ res.val.count = 0 /\ img.phdrs[1].filesz < DynSize
        \/ /\ img.phdrs[1].filesz = 32
           /\ WEq(Dyn_tag(data, res.val.off + res.val.count * DynSize), 0)

---------------------------------------------------------------------------
(* Relocations (reloc.rs).  A u32 is its 4 bytes and a u64 its 8 bytes,    *)
(* low byte first.                                                         *)

RelaSize == 24

\* bit k of a byte, and x | y of two bytes
Bit(x, k) == (x \div (2 ^ k)) % 2

OrByte(x, y) ==
    LET or[k \in 0..8] ==
            IF k = 8 THEN 0
            ELSE (IF Bit(x, k) = 1 \/ Bit(y, k) = 1 THEN 2 ^ k ELSE 0) + or[k + 1]
    IN  or[0]

\* x as u64 for a u32 x, w as u32 for a u64 w
AsU64(x) == x \o <<0, 0, 0, 0>>
AsU32(w) == SubSeq(w, 1, 4)

\* w << 32, w >> 32 and v | w on u64: the bits shifted out are lost
Shl32(w) == [i \in 1..8 |-> IF i <= 4 THEN 0 ELSE w[i - 4]]
Shr32(w) == [i \in 1..8 |-> IF i <= 4 THEN w[i + 4] ELSE 0]
Or64(v, w) == [i \in 1..8 |-> OrByte(v[i], w[i])]

\* RelocInfo::new without the shift of the symbol index
RelocInfo_new_NoShift(symbol, kind) == Or64(AsU64(symbol), AsU64(kind))

\* RelocInfo::new
RelocInfo_new(symbol, kind) == Or64(Shl32(AsU64(symbol)), AsU64(kind))

\* RelocInfo::symbol, RelocInfo::kind
RelocInfo_symbol(w) == AsU32(Shr32(w))
RelocInfo_kind(w) == AsU32(w)

\* Rela.info of the record at offset r, Rela::sym, Rela::kind
Rela_info(b, r) == Word(b, r + 8, 8)
Rela_sym(b, r) == RelocInfo_symbol(Rela_info(b, r))
Rela_kind(b, r) == RelocInfo_kind(Rela_info(b, r))

\* 0, 1, 0xff, 0x10000, 0x12345678, 0x55aa55aa, 0x80000000, 0xffffffff
SomeU32 ==
    {<<0, 0, 0, 0>>, <<1, 0, 0, 0>>, <<255, 0, 0, 0>>, <<0, 0, 1, 0>>, <<120, 86, 52, 18>>,
     <<170, 85, 170, 85>>, <<0, 0, 0, 128>>, <<255, 255, 255, 255>>}

\* a value that a call returned
Value(x) == [tag |-> "Value", val |-> x]

\* a symbol index and a kind code; no record is written yet
InitRel ==
    /\ \E sy \in SomeU32 : \E k \in SomeU32 : img = [fam |-> "rel", symbol |-> sy, kind |-> k]
    /\ data = <<>>
    /\ aligned = TRUE
    /\ elf = "none" /\ op = "init" /\ arg = 0 /\ res = None
    /\ iter = NoIter /\ out = <<>> /\ prev = NoPrev /\ oob = FALSE
    /\ table = NoTable

\* RelocInfo::new(symbol, kind), kept as the info of a Rela record
RelocNew ==
    /\ op = "init"
    /\ Call("RelocInfo_new", 0, Value(RelocInfo_new(img.symbol, img.kind)))
    /\ data' = Enc(4096, 8) \o RelocInfo_new(img.symbol, img.kind) \o Enc(-8, 8)
    /\ UNCHANGED <<table, aligned, img, elf, iter, out, prev>>

RelocSymbol ==
    /\ Len(data) = RelaSize
    /\ Call("RelocInfo_symbol", 0, Value(RelocInfo_symbol(Rela_info(data, 0))))
    /\ UNCHANGED <<table, data, aligned, img, elf, iter, out, prev>>

RelocKind ==
    /\ Len(data) = RelaSize
    /\ Call("RelocInfo_kind", 0, Value(RelocInfo_kind(Rela_info(data, 0))))
    /\ UNCHANGED <<table, data, aligned, img, elf, iter, out, prev>>

RelaSym ==
    /\ Len(data) = RelaSize
    /\ Call("Rela_sym", 0, Value(Rela_sym(data, 0)))
    /\ UNCHANGED <<table, data, aligned, img, elf, iter, out, prev>>

RelaKind ==
    /\ Len(data) = RelaSize
    /\ Call("Rela_kind", 0, Value(Rela_kind(data, 0)))
    /\ UNCHANGED <<table, data, aligned, img, elf, iter, out, prev>>

NextRel == RelocNew \/ RelocSymbol \/ RelocKind \/ RelaSym \/ RelaKind

SpecRel == InitRel /\ [][NextRel]_vars

\* C13: RelocInfo::new(s, k) is the 64-bit word (s << 32) | k, whose low
\* 32 bits are k and whose high 32 bits are s; symbol() and kind() of that
\* word are s and k; Rela::sym and Rela::kind are the high and the low 32
\* bits of the record's info word.
C13_RelocInfoRoundTrip ==
    /\ op = "RelocInfo_new" => res.val = img.kind \o img.symbol
    /\ op \in {"RelocInfo_symbol", "Rela_sym"} =>
          res.val = img.symbol /\ res.val = SubSeq(data, 13, 16)
    /\ op \in {"RelocInfo_kind", "Rela_kind"} =>
          res.val = img.kind /\ res.val = SubSeq(data, 9, 12)

\* the symbol index 0x12345678 was read back from a record packed with the
\* kind code 0xffffffff
C13_Witness ==
    /\ op = "Rela_sym"
    /\ img.symbol = <<120, 86, 52, 18>>
    /\ img.kind = <<255, 255, 255, 255>>
    /\ res.val = <<120, 86, 52, 18>>

---------------------------------------------------------------------------
(* Sym (symbol.rs): the record's fields at the offsets of the #[repr(C)]   *)
(* struct, and its methods.                                                *)

Sym_value(b, r) == Word(b, r + 8, 8)
Sym_size(b, r) == Word(b, r + 16, 8)

\* v < w for unsigned words of one length: the highest byte that differs
WordLt(v, w) ==
    \E i \in 1..Len(v) : v[i] < w[i] /\ \A j \in (i + 1)..Len(v) : v[j] = w[j]

\* v + w does not fit the width: the wrapped sum is below v
AddOverflows(v, w) == WordLt(WrapAdd(v, w), v)

\* addr < value + size of u64: an overflowing add panics where overflow
\* checks are compiled in and wraps where they are not
BelowSum(addr, value, size) ==
    IF AddOverflows(value, size)
    THEN {Panic("attempt to add with overflow"), Value(WordLt(addr, WrapAdd(value, size)))}
    ELSE {Value(WordLt(addr, WrapAdd(value, size)))}

\* Sym::contains_addr of the record at offset r: the outcomes it can have;
\* && does not evaluate the sum when value <= addr is false
Sym_contains_addr(b, r, addr) ==
    IF WordLt(addr, Sym_value(b, r)) THEN {Value(FALSE)}
    ELSE BelowSum(addr, Sym_value(b, r), Sym_size(b, r))

\* Sym::is_resolved, is_absolute, is_common of the record at offset r
Sym_is_resolved(b, r) == Sym_section_index(b, r) = SHN_UNDEF
Sym_is_absolute(b, r) == Sym_section_index(b, r) = SHN_ABS
Sym_is_common(b, r) == Sym_section_index(b, r) = SHN_COMMON

\* section indices: the reserved ones, their neighbours and ordinary ones
SymSections == {SHN_UNDEF, 1, 2, SHN_ABS - 1, SHN_ABS, SHN_COMMON, SHN_COMMON + 1, SHN_XINDEX}

\* values, sizes and addresses around 0x1000 + 0x10 and around 2^64
SymValues == {0, 4096, -16, -1}
SymSizes == {0, 1, 16, 32, -4096}
SymAddrs == {0, 15, 4095, 4096, 4111, 4112, -16, -8, -1}

InitSym ==
    /\ \E v \in SymValues : \E z \in SymSizes : \E x \in SymSections :
         /\ img = [fam |-> "sym", value |-> v, size |-> z, shndx |-> x]
         /\ data = EncSym([name |-> 1, info |-> 18, other |-> 0, shndx |-> x,
                           value |-> v, size |-> z])
    /\ aligned = TRUE
    /\ elf = "none" /\ op = "init" /\ arg = 0 /\ res = None
    /\ iter = NoIter /\ out = <<>> /\ prev = NoPrev /\ oob = FALSE
    /\ table = NoTable

\* sym.contains_addr(addr)
ContainsAddr ==
    /\ \E a \in SymAddrs : \E r \in Sym_contains_addr(data, 0, Enc(a, 8)) :
         Call("contains_addr", a, r)
    /\ UNCHANGED <<table, data, aligned, img, elf, iter, out, prev>>

\* a predicate of the Sym called
Predicate(name, value) ==
    /\ Call(name, 0, Value(value))
    /\ UNCHANGED <<table, data, aligned, img, elf, iter, out, prev>>

\* sym.is_resolved(), sym.is_absolute(), sym.is_common()
IsResolved == Predicate("is_resolved", Sym_is_resolved(data, 0))
IsAbsolute == Predicate("is_absolute", Sym_is_absolute(data, 0))
IsCommon == Predicate("is_common", Sym_is_common(data, 0))

NextSym ==
    \/ ContainsAddr
    \/ IsResolved
    \/ IsAbsolute
    \/ IsCommon

SpecSym == InitSym /\ [][NextSym]_vars

\* the number a field value v stands for is 2^64 x Hi(v) + v
Hi(v) == IF v < 0 THEN 1 ELSE 0

\* value <= addr < value + size in unbounded integers
RefContains(value, size, addr) ==
    /\ Hi(value) < Hi(addr) \/ (Hi(value) = Hi(addr) /\ value <= addr)
    /\ \/ Hi(addr) < Hi(value) + Hi(size)
       \/ Hi(addr) = Hi(value) + Hi(size) /\ addr < value + size

\* C14: Sym::contains_addr(addr) is true exactly when value <= addr <
\* value + size, the upper bound excluded; a symbol of size 0 contains no
\* address.
C14_ContainsAddrHalfOpen ==
    op = "contains_addr" =>
        /\ res.tag = "Value"
        /\ res.val = RefContains(img.value, img.size, arg)

\* contains_addr(2^64 - 8) of a symbol of value 2^64 - 16 and size 32, which
\* contains the address, panicked or returned false
C14_Witness ==
    /\ op = "contains_addr"
    /\ img.value = -16 /\ img.size = 32 /\ arg = -8
    /\ res \in {Panic("attempt to add with overflow"), Value(FALSE)}

\* what does hold: the claim for every symbol whose value + size is at
\* most 2^64 - 1, among them value 0x1000 and size 0x10, and size 0
ContainsAddrWithoutOverflow ==
    op = "contains_addr" /\ Hi(img.value) + Hi(img.size) = 0 =>
        C14_ContainsAddrHalfOpen

\* 0x100F is inside and 0x1010 outside the symbol of value 0x1000, size 0x10
ContainsAddrBoundary ==
    op = "contains_addr" /\ img.value = 4096 /\ img.size = 16 =>
        res = Value(arg \in {4096, 4111})

---------------------------------------------------------------------------
(* The enumerations of sections, dynamic tags and symbols (section.rs,     *)
(* dynamic.rs, symbol.rs).  A u32 is its 4 bytes and an isize its 8 bytes, *)
(* low byte first; the arms are tried in the order of the match.           *)

\* the arms 0..11 and 14..18 of SectionType::from_u32, by value
SectionTypeNamed ==
    <<"Null", "Progbits", "Symtab", "Strtab", "Rela", "Hash", "Dynamic", "Note", "Nobits",
      "Rel", "Shlib", "Dynsym", "", "", "InitArray", "FiniArray", "PreinitArray", "Group",
      "SymtabShndx">>

\* SectionType::from_u32 without the arm 0x80000000..=0xffffffff
SectionType_from_u32_NoUser(x) ==
    IF Fits(x) /\ Num(x) <= 18 /\ Num(x) \notin {12, 13}
    THEN Variant(SectionTypeNamed[Num(x) + 1])
    ELSE IF x[4] >= 96 /\ x[4] <= 111 THEN Carrier("EnvSpecific", x)
    ELSE IF x[4] >= 112 /\ x[4] <= 127 THEN Carrier("CpuSpecific", x)
    ELSE Carrier("Unknown", x)

\* SectionType::from_u32
SectionType_from_u32(x) ==
    IF Fits(x) /\ Num(x) <= 18 /\ Num(x) \notin {12, 13}
    THEN Variant(SectionTypeNamed[Num(x) + 1])
    ELSE IF x[4] >= 96 /\ x[4] <= 111 THEN Carrier("EnvSpecific", x)
    ELSE IF x[4] >= 112 /\ x[4] <= 127 THEN Carrier("CpuSpecific", x)
    ELSE IF x[4] >= 128 THEN Carrier("UserSpecific", x)
    ELSE Carrier("Unknown", x)

\* the arms 0..30 of DynTag::from_raw, by value
DynTagNamed ==
    <<"Null", "Needed", "PltRelSize", "PltGot", "Hash", "Strtab", "Symtab", "Rela",
      "RelaSize", "RelaEnt", "StrtabSize", "SymEnt", "Init", "Fini", "Soname", "Rpath",
      "Symbolic", "Rel", "RelSize", "RelEnt", "PltRel", "Debug", "TextRel", "JmpRel",
      "BindNow", "InitArray", "FiniArray", "InitArraySize", "FiniArraySize", "Runpath",
      "Flags">>

\* a non-negative isize below 2^32: its high four bytes are 0
IsU32(t) == \A i \in 5..8 : t[i] = 0

\* DynTag::from_raw: 0x6ffffef5 is <<0xf5, 0xfe, 0xff, 0x6f, 0, 0, 0, 0>>
DynTag_from_raw(t) ==
    IF Fits(t) /\ Num(t) <= 30 THEN Variant(DynTagNamed[Num(t) + 1])
    ELSE IF WEq(t, 32) THEN Variant("PreinitArray")
    ELSE IF WEq(t, 33) THEN Variant("PreinitArraySize")
    ELSE IF t = <<245, 254, 255, 111, 0, 0, 0, 0>> THEN Variant("GnuHash")
    ELSE IF t = <<249, 255, 255, 111, 0, 0, 0, 0>> THEN Variant("RelaCount")
    ELSE IF t = <<251, 255, 255, 111, 0, 0, 0, 0>> THEN Variant("Flags1")
    ELSE IF IsU32(t) /\ t[4] >= 96 /\ t[4] <= 111 THEN Carrier("EnvSpecific", t)
    ELSE IF IsU32(t) /\ t[4] >= 112 /\ t[4] <= 127 THEN Carrier("CpuSpecific", t)
    ELSE Carrier("Unknown", t)

\* a SymInfo: the bytes info and other
SymInfo(i, o) == [info |-> i, other |-> o]

\* the arms 0..6 of SymbolKind::from_sym_info, by value
SymbolKindNamed == <<"NoType", "Object", "Func", "Section", "File", "Common", "Tls">>

\* SymbolKind::from_sym_info with unreachable!() for the values of no arm
SymbolKind_from_sym_info_Closed(si) ==
    LET x == si.info % 16
    IN  IF x <= 6 THEN Variant(SymbolKindNamed[x + 1])
        ELSE IF x = 10 THEN Variant("Ifunc")
        ELSE IF x >= 10 /\ x <= 12 THEN Carrier("EnvSpecific", x)
        ELSE IF x >= 13 /\ x <= 15 THEN Carrier("CpuSpecific", x)
        ELSE Panic("internal error: entered unreachable code")

\* SymbolKind::from_sym_info: si.info & 0xf
SymbolKind_from_sym_info(si) ==
    LET x == si.info % 16
    IN  IF x <= 6 THEN Variant(SymbolKindNamed[x + 1])
        ELSE IF x = 10 THEN Variant("Ifunc")
        ELSE IF x >= 10 /\ x <= 12 THEN Carrier("EnvSpecific", x)
        ELSE IF x >= 13 /\ x <= 15 THEN Carrier("CpuSpecific", x)
        ELSE Carrier("Unknown", x)

\* Binding::from_sym_info: si.info >> 4
Binding_from_sym_info(si) ==
    LET x == si.info \div 16
    IN  IF x = 0 THEN Variant("Local")
        ELSE IF x = 1 THEN Variant("Global")
        ELSE IF x = 2 THEN Variant("Weak")
        ELSE IF x >= 10 /\ x <= 12 THEN Carrier("EnvSpecific", x)
        ELSE IF x >= 13 /\ x <= 15 THEN Carrier("CpuSpecific", x)
        ELSE Carrier("Unknown", x)

\* Visibility::from_sym_info: si.other & 0x3
Visibility_from_sym_info(si) ==
    LET x == si.other % 4
    IN  IF x = 0 THEN Variant("Default")
        ELSE IF x = 1 THEN Variant("Internal")
        ELSE IF x = 2 THEN Variant("Hidden")
        ELSE IF x = 3 THEN Variant("Protected")
        ELSE Panic("internal error: entered unreachable code")

---------------------------------------------------------------------------
(* The enumeration specification: eight raw bytes, of which each decoder   *)
(* is given the field of its width at offset 0.                            *)

\* every byte; 16-bit values around 0xfe00 and 0xff00; 32-bit values at the
\* ends of the reserved ranges, 0x12345678 and 0x65000000; the GNU segment
\* kinds and dynamic tags and their neighbours; values of more than 32 bits
\* and negative ones
RawWords ==
    {<<x, 0, 0, 0, 0, 0, 0, 0>> : x \in 0..255}
    \cup {<<lo, hi, 0, 0, 0, 0, 0, 0>> : lo \in {0, 1, 255}, hi \in {1, 253, 254, 255}}
    \cup {<<l[1], l[2], l[3], hi, 0, 0, 0, 0>> :
            l \in {<<0, 0, 0>>, <<1, 0, 0>>, <<255, 255, 255>>, <<120, 86, 52>>},
            hi \in {18, 95, 96, 101, 111, 112, 127, 128, 255}}
    \cup {<<lo, 229, mid, 100, 0, 0, 0, 0>> : lo \in 79..83, mid \in {100, 116}}
    \cup {<<lo, mid, 255, 111, 0, 0, 0, 0>> :
            lo \in {244, 245, 246, 248, 249, 250, 251, 252}, mid \in {254, 255}}
    \cup {<<5, 0, 0, 0, 1, 0, 0, 0>>, <<0, 0, 0, 96, 1, 0, 0, 0>>,
          <<245, 254, 255, 111, 1, 0, 0, 0>>, <<0, 0, 0, 0, 0, 0, 0, 128>>,
          <<0, 0, 0, 112, 0, 0, 0, 128>>, <<251, 255, 255, 255, 255, 255, 255, 255>>,
          <<255, 255, 255, 255, 255, 255, 255, 255>>}

InitEnum ==
    /\ data \in RawWords
    /\ img = [fam |-> "raw"]
    /\ aligned = TRUE
    /\ elf = "none" /\ op = "init" /\ arg = 0 /\ res = None
    /\ iter = NoIter /\ out = <<>> /\ prev = NoPrev /\ oob = FALSE
    /\ table = NoTable

\* a decoder called on the raw bytes
Decode(name, variant) ==
    /\ Call(name, 0, variant)
    /\ UNCHANGED <<table, data, aligned, img, elf, iter, out, prev>>

DecodeClass == Decode("Class", Class_from_u8(U8(data, 0)))
DecodeData == Decode("Data", Data_from_u8(U8(data, 0)))
DecodeOsAbi == Decode("OsAbi", OsAbi_from_u8(U8(data, 0)))
DecodeVersion == Decode("Version", Version_from_u32(Word(data, 0, 4)))
DecodeVersionByte == Decode("Version_u8", Version_from_u8(U8(data, 0)))
DecodeElfType == Decode("ElfType", ElfType_from_u16(U16(data, 0)))
DecodeMachine == Decode("Machine", Machine_from_u16(U16(data, 0)))
DecodeSectionType == Decode("SectionType", SectionType_from_u32(Word(data, 0, 4)))
DecodeSegmentKind == Decode("SegmentKind", SegmentKind_from_u32(Word(data, 0, 4)))
DecodeDynTag == Decode("DynTag", DynTag_from_raw(Word(data, 0, 8)))
DecodeSymbolKind ==
    Decode("SymbolKind", SymbolKind_from_sym_info(SymInfo(U8(data, 0), U8(data, 1))))
DecodeBinding == Decode("Binding", Binding_from_sym_info(SymInfo(U8(data, 0), U8(data, 1))))
DecodeVisibility ==
    Decode("Visibility", Visibility_from_sym_info(SymInfo(U8(data, 1), U8(data, 0))))

NextEnum ==
    \/ DecodeClass
    \/ DecodeData
    \/ DecodeOsAbi
    \/ DecodeVersion
    \/ DecodeVersionByte
    \/ DecodeElfType
    \/ DecodeMachine
    \/ DecodeSectionType
    \/ DecodeSegmentKind
    \/ DecodeDynTag
    \/ DecodeSymbolKind
    \/ DecodeBinding
    \/ DecodeVisibility

SpecEnum == InitEnum /\ [][NextEnum]_vars

\* the four carrier variants
CarrierNames == {"EnvSpecific", "CpuSpecific", "UserSpecific", "Unknown"}

IsCarrier(r) == "v" \in DOMAIN r /\ "raw" \in DOMAIN r /\ r.v \in CarrierNames

\* the decoders of SpecEnum
EnumOps ==
    {"Class", "Data", "OsAbi", "Version", "Version_u8", "ElfType", "Machine",
     "SectionType", "SegmentKind", "DynTag", "SymbolKind", "Binding", "Visibility"}

\* the raw value the decoder last called was given: the field of its width
EnumRaw ==
    CASE op \in {"Class", "Data", "OsAbi"} -> U8(data, 0)
      [] op = "Version_u8" -> <<U8(data, 0), 0, 0, 0>>
      [] op \in {"ElfType", "Machine"} -> U16(data, 0)
      [] op \in {"Version", "SectionType", "SegmentKind"} -> Word(data, 0, 4)
      [] op = "DynTag" -> Word(data, 0, 8)
      [] op = "SymbolKind" -> U8(data, 0) % 16
      [] op = "Binding" -> U8(data, 0) \div 16
      [] op = "Visibility" -> U8(data, 0) % 4

\* a 32-bit or 64-bit raw value that is one of the small numbers of S
SmallIn(w, S) == Fits(w) /\ Num(w) \in S

\* the raw value is one of the enumeration's named standard values
EnumNamed ==
    CASE op \in {"Class", "Data"} -> EnumRaw \in 0..2
      [] op = "OsAbi" -> EnumRaw \in {0, 2, 3, 9, 12, 255}
      [] op \in {"Version", "Version_u8"} -> SmallIn(EnumRaw, {0, 1})
      [] op = "ElfType" -> EnumRaw \in 0..4
      [] op = "Machine" -> EnumRaw \in {0, 62, 183, 243}
      [] op = "SectionType" -> SmallIn(EnumRaw, (0..11) \cup (14..18))
      [] op = "SegmentKind" ->
            \/ SmallIn(EnumRaw, 0..7)
            \/ EnumRaw \in {<<80, 229, 100, 100>>, <<80, 229, 116, 100>>,
                            <<81, 229, 116, 100>>, <<82, 229, 116, 100>>}
      [] op = "DynTag" ->
            \/ SmallIn(EnumRaw, (0..30) \cup {32, 33})
            \/ /\ IsU32(EnumRaw)
               /\ Word(EnumRaw, 0, 4) \in {<<245, 254, 255, 111>>, <<249, 255, 255, 111>>,
                                           <<250, 255, 255, 111>>, <<251, 255, 255, 111>>}
      [] op = "SymbolKind" -> EnumRaw \in (0..6) \cup {10}
      [] op = "Binding" -> EnumRaw \in 0..2
      [] op = "Visibility" -> TRUE

\* C15: no enumeration fails to decode: every decoder returns a variant for
\* every raw value of its width without aborting, and a value that is not a
\* named standard value decodes to a carrier variant (EnvSpecific,
\* CpuSpecific, UserSpecific or Unknown) whose payload is the raw value.
C15_EveryValueDecodes ==
    op \in EnumOps =>
        /\ "v" \in DOMAIN res
        /\ ~EnumNamed => IsCarrier(res)
        /\ IsCarrier(res) => res.raw = EnumRaw

\* a symbol kind of no arm (7, 8, 9) was decoded, to the Unknown carrier
C15_Witness ==
    /\ op = "SymbolKind"
    /\ EnumRaw \in 7..9
    /\ res = Carrier("Unknown", EnumRaw)

\* the section type catalog, by name
SectionTypeCatalog ==
    [Null |-> 0, Progbits |-> 1, Symtab |-> 2, Strtab |-> 3, Rela |-> 4, Hash |-> 5,
     Dynamic |-> 6, Note |-> 7, Nobits |-> 8, Rel |-> 9, Shlib |-> 10, Dynsym |-> 11,
     InitArray |-> 14, FiniArray |-> 15, PreinitArray |-> 16, Group |-> 17,
     SymtabShndx |-> 18]

\* the values of a catalog
ValuesOf(catalog) == {catalog[n] : n \in DOMAIN catalog}

\* the reserved range of a value of at least 32 bits, by its byte 3:
\* 0x60..0x6f environment, 0x70..0x7f processor, 0x80..0xff user where the
\* enumeration has a user range
ReservedRange(x, user) ==
    IF x[4] >= 96 /\ x[4] <= 111 THEN "EnvSpecific"
    ELSE IF x[4] >= 112 /\ x[4] <= 127 THEN "CpuSpecific"
    ELSE IF user /\ x[4] >= 128 THEN "UserSpecific"
    ELSE "Unknown"

\* C16: SectionType::from_u32 follows the range policy for every 32-bit
\* value: a catalog value (0-11, 14-18) decodes to its named variant,
\* 0x60000000..=0x6fffffff to EnvSpecific, 0x70000000..=0x7fffffff to
\* CpuSpecific, 0x80000000..=0xffffffff to UserSpecific and every other value
\* (12, 13, 0x12345678) to Unknown, the payload being the input.
C16_SectionTypeRangePolicy ==
    op = "SectionType" =>
        LET x == Word(data, 0, 4)
        IN  /\ \A n \in DOMAIN SectionTypeCatalog :
                WEq(x, SectionTypeCatalog[n]) => res = Variant(n)
            /\ ~SmallIn(x, ValuesOf(SectionTypeCatalog)) =>
                res = Carrier(ReservedRange(x, TRUE), x)

\* 0x80000001 was decoded, to the user carrier that holds it
C16_Witness ==
    /\ op = "SectionType"
    /\ Word(data, 0, 4) = <<1, 0, 0, 128>>
    /\ res = Carrier("UserSpecific", <<1, 0, 0, 128>>)

\* 0x65000000 decodes to EnvSpecific, 0x12345678, 12 and 13 to Unknown
SectionTypeExamples ==
    /\ SectionType_from_u32(<<0, 0, 0, 101>>) = Carrier("EnvSpecific", <<0, 0, 0, 101>>)
    /\ SectionType_from_u32(<<120, 86, 52, 18>>) = Carrier("Unknown", <<120, 86, 52, 18>>)
    /\ SectionType_from_u32(<<12, 0, 0, 0>>) = Carrier("Unknown", <<12, 0, 0, 0>>)
    /\ SectionType_from_u32(<<13, 0, 0, 0>>) = Carrier("Unknown", <<13, 0, 0, 0>>)

\* the dynamic tag catalog, by name: the tags below 2^24
DynTagCatalog ==
    [Null |-> 0, Needed |-> 1, PltRelSize |-> 2, PltGot |-> 3, Hash |-> 4, Strtab |-> 5,
     Symtab |-> 6, Rela |-> 7, RelaSize |-> 8, RelaEnt |-> 9, StrtabSize |-> 10,
     SymEnt |-> 11, Init |-> 12, Fini |-> 13, Soname |-> 14, Rpath |-> 15,
     Symbolic |-> 16, Rel |-> 17, RelSize |-> 18, RelEnt |-> 19, PltRel |-> 20,
     Debug |-> 21, TextRel |-> 22, JmpRel |-> 23, BindNow |-> 24, InitArray |-> 25,
     FiniArray |-> 26, InitArraySize |-> 27, FiniArraySize |-> 28, Runpath |-> 29,
     Flags |-> 30, PreinitArray |-> 32, PreinitArraySize |-> 33]

\* the tags of the catalog in the environment range: 0x6ffffef5,
\* 0x6ffffff9, 0x6ffffffa, 0x6ffffffb
DynTagCatalogGnu ==
    [GnuHash |-> <<245, 254, 255, 111, 0, 0, 0, 0>>,
     RelaCount |-> <<249, 255, 255, 111, 0, 0, 0, 0>>,
     RelCount |-> <<250, 255, 255, 111, 0, 0, 0, 0>>,
     Flags1 |-> <<251, 255, 255, 111, 0, 0, 0, 0>>]

\* the tag is in the catalog
InDynTagCatalog(t) == SmallIn(t, ValuesOf(DynTagCatalog)) \/ t \in ValuesOf(DynTagCatalogGnu)

\* C17: DynTag::from_raw maps every tag of the dynamic tag catalog
\* (Null=0 ... Flags=30, PreinitArray=32, PreinitArraySize=33,
\* GnuHash=0x6ffffef5, RelaCount=0x6ffffff9, RelCount=0x6ffffffa,
\* Flags1=0x6ffffffb) to its own named variant, and only tags outside the
\* catalog in 0x60000000-0x6fffffff or 0x70000000-0x7fffffff to the
\* EnvSpecific or CpuSpecific carrier.
C17_DynTagCatalog ==
    op = "DynTag" =>
        LET t == Word(data, 0, 8)
        IN  /\ \A n \in DOMAIN DynTagCatalog :
                WEq(t, DynTagCatalog[n]) => res = Variant(n)
            /\ \A n \in DOMAIN DynTagCatalogGnu :
                t = DynTagCatalogGnu[n] => res = Variant(n)
            /\ res.v \in {"EnvSpecific", "CpuSpecific"} =>
                /\ ~InDynTagCatalog(t)
                /\ IsU32(t)
                /\ res.v = ReservedRange(t, FALSE)

\* the tag 0x6ffffffa, RelCount in the catalog, was decoded: to the
\* environment carrier
C17_Witness ==
    /\ op = "DynTag"
    /\ Word(data, 0, 8) = DynTagCatalogGnu.RelCount
    /\ res = Carrier("EnvSpecific", DynTagCatalogGnu.RelCount)

\* the catalog but for RelCount: every other tag decodes to its own variant,
\* and the carriers hold their input
DynTagCatalogButRelCount ==
    op = "DynTag" =>
        LET t == Word(data, 0, 8)
        IN  /\ \A n \in DOMAIN DynTagCatalog :
                WEq(t, DynTagCatalog[n]) => res = Variant(n)
            /\ \A n \in DOMAIN DynTagCatalogGnu \ {"RelCount"} :
                t = DynTagCatalogGnu[n] => res = Variant(n)
            /\ (~InDynTagCatalog(t) \/ t = DynTagCatalogGnu.RelCount) =>
                res = Carrier(IF IsU32(t) THEN ReservedRange(t, FALSE) ELSE "Unknown", t)

\* the segment type catalog, by name: the kinds below 2^24
SegmentKindCatalog ==
    [Null |-> 0, Load |-> 1, Dynamic |-> 2, Interp |-> 3, Note |-> 4, Shlib |-> 5,
     Phdr |-> 6, Tls |-> 7]

\* the GNU kinds of the catalog: 0x6464e550, 0x6474e550, 0x6474e551,
\* 0x6474e552
SegmentKindCatalogGnu ==
    [Unwind |-> <<80, 229, 100, 100>>, EhFrame |-> <<80, 229, 116, 100>>,
     Stack |-> <<81, 229, 116, 100>>, Relro |-> <<82, 229, 116, 100>>]

\* C18: SegmentKind::from_u32 maps every catalog value to its named variant,
\* a named value taking precedence over the reserved range that contains it:
\* 0x6464e550, 0x6474e550, 0x6474e551 and 0x6474e552 decode to Unwind,
\* EhFrame, Stack and Relro, never to EnvSpecific; every other value of
\* 0x60000000..=0x6fffffff decodes to EnvSpecific, a value of
\* 0x70000000..=0x7fffffff to CpuSpecific and everything else outside 0-7 to
\* Unknown, the payload being the input.
C18_SegmentKindNamedFirst ==
    op = "SegmentKind" =>
        LET x == Word(data, 0, 4)
        IN  /\ \A n \in DOMAIN SegmentKindCatalog :
                WEq(x, SegmentKindCatalog[n]) => res = Variant(n)
            /\ \A n \in DOMAIN SegmentKindCatalogGnu :
                x = SegmentKindCatalogGnu[n] => res = Variant(n)
            /\ (~SmallIn(x, 0..7) /\ x \notin ValuesOf(SegmentKindCatalogGnu)) =>
                res = Carrier(ReservedRange(x, FALSE), x)

\* 0x6474e551, inside the environment range, was decoded: to Stack
C18_Witness ==
    /\ op = "SegmentKind"
    /\ Word(data, 0, 4) = SegmentKindCatalogGnu.Stack
    /\ res = Variant("Stack")

---------------------------------------------------------------------------
(* Byte order. A file header written in the byte order its data byte       *)
(* declares (1: least significant byte first, 2: most significant byte     *)
(* first), read by FileHeader::from_buffer and by Elf::new on a target     *)
(* that stores the least significant byte first.                           *)

Reverse(s) == [i \in 1..Len(s) |-> s[Len(s) + 1 - i]]

\* the field value v in n bytes, in the byte order d
EncAs(d, v, n) == IF d = 2 THEN Reverse(Enc(v, n)) ELSE Enc(v, n)

\* the file header in the byte order h.data
EncEhdrAs(h) ==
    h.magic \o <<h.class, h.data, h.hversion, h.osabi, h.abiversion>> \o Zeros(7)
    \o EncAs(h.data, h.type, 2) \o EncAs(h.data, h.machine, 2)
    \o EncAs(h.data, h.version, 4) \o EncAs(h.data, h.entry, 8)
    \o EncAs(h.data, h.phoff, 8) \o EncAs(h.data, h.shoff, 8)
    \o EncAs(h.data, h.flags, 4) \o EncAs(h.data, h.ehsize, 2)
    \o EncAs(h.data, h.phentsize, 2) \o EncAs(h.data, h.phnum, 2)
    \o EncAs(h.data, h.shentsize, 2) \o EncAs(h.data, h.shnum, 2)
    \o EncAs(h.data, h.shstrndx, 2)

\* headers in either byte order, of entry points, table offsets and counts
\* that read the same from both ends (0, 2^64 - 1, 0x0101) and that do not
EncHeaders ==
    {[DefaultEhdr EXCEPT !.data = d, !.entry = e, !.phoff = po, !.shoff = so,
                         !.phnum = pn, !.shnum = sn] :
        d \in {1, 2}, e \in {0, 4096, -1}, po \in {0, 64}, so \in {64, 4096},
        pn \in {0, 1, 257}, sn \in {0, 2}}

InitEnc ==
    /\ img \in {[fam |-> "enc", h |-> h] : h \in EncHeaders}
    /\ data = EncEhdrAs(img.h)
    /\ aligned = TRUE
    /\ elf = "none" /\ op = "init" /\ arg = 0 /\ res = None
    /\ iter = NoIter /\ out = <<>> /\ prev = NoPrev /\ oob = FALSE
    /\ table = NoTable

\* FileHeader::from_buffer: the buffer reinterpreted as the struct
FileHeader_from_buffer(b, al) ==
    IF check_buffer(b, al) THEN Ok(FileHeaderView(b))
    ELSE Panic("assertion failed: Self::check_buffer(buf)")

\* FileHeader::from_buffer(data) and the accessors of the header it returns
FromBuffer ==
    /\ Call("from_buffer", 0, FileHeader_from_buffer(data, aligned))
    /\ UNCHANGED <<table, data, aligned, img, elf, iter, out, prev>>

NextEnc ==
    \/ FromBuffer
    \/ New
    \/ Header

SpecEnc == InitEnc /\ [][NextEnc]_vars

\* the multi-byte numbers of a header view
Numbers(view) ==
    <<view.entry_point, view.phdr_offset, view.shdr_offset, view.phdr_num, view.shdr_num>>

\* the header h written in the other byte order
Twin(h) == EncEhdrAs([h EXCEPT !.data = 3 - h.data])

\* C19: fields are decoded in the byte order the header's data byte
\* declares: a buffer that declares most-significant-byte-first and one that
\* declares least-significant-byte-first, encoding the same field values,
\* give the same entry_point, phdr_offset, shdr_offset, phdr_num and
\* shdr_num.
C19_DeclaredByteOrder ==
    (op \in {"from_buffer", "header"} /\ res.tag = "Ok") =>
        Numbers(res.val) = Numbers(FileHeader_from_buffer(Twin(img.h), aligned).val)

\* a header that declares most-significant-byte-first with entry point
\* 0x1000 and one program header was read: entry_point() is
\* 0x0010000000000000 and phdr_num() 0x0100
C19_Witness ==
    /\ op = "from_buffer"
    /\ img.h.data = 2 /\ img.h.entry = 4096 /\ img.h.phnum = 1
    /\ res.tag = "Ok"
    /\ res.val.entry_point = <<0, 0, 0, 0, 0, 0, 16, 0>>
    /\ res.val.phdr_num = 256

\* a header written least-significant-byte-first is read as written
LittleEndianAsWritten ==
    (op \in {"from_buffer", "header"} /\ img.h.data = 1) =>
        /\ res.tag = "Ok"
        /\ Numbers(res.val) =
            <<Enc(img.h.entry, 8), Enc(img.h.phoff, 8), Enc(img.h.shoff, 8),
              img.h.phnum, img.h.shnum>>

\* Elf::new rejects every header written most-significant-byte-first: its
\* program header size 56 reads as 0x3800
BigEndianRejected ==
    (op = "new" /\ img.h.data = 2) => res = Err("bad program header size")

---------------------------------------------------------------------------
(* Symbol::name (symbol.rs), in the specification of the Elf operations.   *)

\* the name index of the symbol whose name was last asked for
NameIndex == Sym_name_index(data, out[arg])

\* C20: Symbol::name returns absence when there is no string table (no
\* section named .strtab) or when the symbol's name index is 0; otherwise it
\* returns the string at the name index of the string table.
C20_SymbolNameAbsentOrString ==
    op = "symbol_name" =>
        /\ FindSection(data, StrtabName) = None => res = None
        /\ WEq(NameIndex, 0) => res = None
        /\ (table # NoTable /\ ~WEq(NameIndex, 0) /\ ~WGe(NameIndex, table.len)
              /\ NulsFrom(Num(NameIndex)) # {}) =>
             /\ res.tag = "Some"
             /\ Bytes(data, res.val) = UpToNul(Num(NameIndex))

\* the name of a symbol with name index 0 was asked for in an image with a
\* .strtab section that starts with a NUL: the empty string, not absence
C20_Witness ==
    /\ op = "symbol_name"
    /\ WEq(NameIndex, 0)
    /\ table = Slice(StrtabOff, 4)
    /\ res = Some(Slice(StrtabOff, 0))

\* what does hold: without a .strtab section the name is absent, and with
\* one it is get_string at the name index, index 0 included
SymbolNameIsGetString ==
    op = "symbol_name" =>
        /\ FindSection(data, StrtabName) = None => res = None
        /\ (table # NoTable /\ ~WGe(NameIndex, table.len)
              /\ NulsFrom(Num(NameIndex)) # {}) =>
             /\ res.tag = "Some"
             /\ Bytes(data, res.val) = UpToNul(Num(NameIndex))

\* a symbol's name was found: "ab" at index 1
SymbolNameFound ==
    /\ op = "symbol_name"
    /\ WEq(NameIndex, 1)
    /\ res.tag = "Some"
    /\ Bytes(data, res.val) = <<97, 98>>

\* a symbol's name was asked for in an image without a .strtab section
SymbolNameWithoutStrtab ==
    /\ op = "symbol_name"
    /\ FindSection(data, StrtabName) = None
    /\ res = None

---------------------------------------------------------------------------
(* Sym: the sum of contains_addr and the reserved-index predicates.        *)

\* C26: Sym::contains_addr agrees with the test value <= addr < value + size
\* of unbounded integers for all 64-bit values, sizes and addresses, also
\* when value + size >= 2^64: the call does not abort, and the sum does not
\* wrap to change the answer.
C26_ContainsAddrUnbounded ==
    op = "contains_addr" =>
        /\ ~IsPanic(res)
        /\ RefContains(img.value, img.size, arg) <=> res = Value(TRUE)

\* contains_addr(2^64 - 1) of the symbol of value 2^64 - 1 and size 1, whose
\* end is 2^64: the add overflowed, and the call aborted or answered false
C26_Witness ==
    /\ op = "contains_addr"
    /\ img.value = -1 /\ img.size = 1 /\ arg = -1
    /\ RefContains(img.value, img.size, arg)
    /\ res \in {Panic("attempt to add with overflow"), Value(FALSE)}

\* the sum is not evaluated for an address below the value: no abort there
ContainsAddrBelowValue ==
    op = "contains_addr" /\ ~(Hi(img.value) < Hi(arg) \/ (Hi(img.value) = Hi(arg) /\ img.value <= arg))
        => res = Value(FALSE)

\* C27: the reserved-index predicates of Sym classify the section index
\* consistently: is_absolute() is true exactly when the index is ABS
\* (0xfff1), is_common() exactly when it is COMMON (0xfff2), and
\* is_resolved() exactly when the symbol is defined, its section index not
\* being UNDEF (0).
C27_ReservedIndexPredicates ==
    /\ op = "is_absolute" => res = Value(img.shndx = 65521)
    /\ op = "is_common" => res = Value(img.shndx = 65522)
    /\ op = "is_resolved" => res = Value(img.shndx # 0)

\* is_resolved() of a symbol of section index 1, a defined symbol, is false
C27_Witness ==
    /\ op = "is_resolved"
    /\ img.shndx = 1
    /\ res = Value(FALSE)

\* what does hold: is_absolute and is_common are as stated, and is_resolved
\* is true exactly for the undefined symbols
ReservedIndexPredicatesAsCoded ==
    /\ op = "is_absolute" => res = Value(img.shndx = 65521)
    /\ op = "is_common" => res = Value(img.shndx = 65522)
    /\ op = "is_resolved" => res = Value(img.shndx = 0)

---------------------------------------------------------------------------
(* The order of the checks of Elf::new.                                    *)

\* the buffer can hold a FileHeader and is aligned for it
BufferFits == aligned /\ Len(data) >= 64

\* and starts with the magic bytes
MagicFits == BufferFits /\ SubSeq(data, 1, 4) = <<127, 69, 76, 70>>

\* C24: the checks of Elf::new run in the order buffer size and alignment,
\* magic, class, strides, and the first that fails determines the error: a
\* buffer failing the magic and the class check reports the buffer/magic
\* error, one failing the class and a stride check the class error, and a
\* buffer shorter than a FileHeader (shorter than 4 bytes included) is
\* rejected with the buffer error without a header field being read.
C24_FirstFailingCheckReported ==
    op = "new" =>
        /\ ~BufferFits => res = Err("invalid ELF")
        /\ BufferFits /\ ~MagicFits => res = Err("invalid ELF")
        /\ MagicFits /\ img.h.class # 2 => res = Err("not ELF64")
        /\ MagicFits /\ img.h.class = 2 /\ (img.h.phentsize # 56 \/ img.h.shentsize # 64) =>
             res \in {Err("bad program header size"), Err("bad section header size")}

\* a buffer with the magic bytes, class byte 1 and program header entry
\* size 32 was given to Elf::new: the class error
C24_Witness ==
    /\ op = "new"
    /\ MagicFits
    /\ img.h.class = 1 /\ img.h.phentsize = 32 /\ img.h.shentsize = 40
    /\ res = Err("not ELF64")

\* a buffer of 0 or of 3 bytes was given to Elf::new: the buffer error
ShortBufferRejected ==
    /\ op = "new"
    /\ Len(data) \in {0, 3}
    /\ res = Err("invalid ELF")

\* of two wrong strides the program header's is reported
ProgramHeaderStrideFirst ==
    op = "new" /\ MagicFits /\ img.h.class = 2 /\ img.h.phentsize # 56 =>
        res = Err("bad program header size")

---------------------------------------------------------------------------
(* Symbol::section (symbol.rs), in the specification of the Elf            *)
(* operations.                                                             *)

\* the section index of the symbol whose section was last asked for
SectionIndex == Sym_section_index(data, out[arg])

\* C21: Symbol::section returns absence for every reserved section index
\* (UNDEF=0, ABS=0xfff1, COMMON=0xfff2, XINDEX=0xffff), whatever the
\* declared section count, and for a non-reserved index i below the section
\* count the i-th section.
C21_ReservedIndexHasNoSection ==
    op = "symbol_section" =>
        /\ SectionIndex \in {0, 65521, 65522, 65535} => res = None
        /\ SectionIndex \notin {0, 65521, 65522, 65535} /\ SectionIndex < img.h.shnum =>
             res = Some(img.h.shoff + SectionIndex * 64)

\* the section of an undefined symbol (section index 0) was asked for in an
\* image of four sections: the null section, not absence
C21_Witness ==
    /\ op = "symbol_section"
    /\ SectionIndex = 0
    /\ img.h.shnum = 4
    /\ res = Some(img.h.shoff)

\* what does hold: the section is sections().nth(index), absent exactly for
\* an index at or above the section count
SymbolSectionIsNth ==
    op = "symbol_section" =>
        res = (IF SectionIndex < img.h.shnum THEN Some(img.h.shoff + SectionIndex * 64)
               ELSE None)

\* the section of a symbol of section index ABS was asked for: absent
SymbolSectionOfAbs ==
    /\ op = "symbol_section"
    /\ SectionIndex = 65521
    /\ res = None

\* the section of a symbol of section index 1 was asked for: the section 1
SymbolSectionFound ==
    /\ op = "symbol_section"
    /\ SectionIndex = 1
    /\ res = Some(img.h.shoff + 64)

---------------------------------------------------------------------------
(* Elf::symbol_table and the records of the .symtab section.               *)

\* C25: Elf::symbol_table() is built from the Sym records of the
\* symbol-table section: the records a SymbolTable holds for find to scan
\* are the records, in their order, that Elf::symtab() enumerates from the
\* section named .symtab, and the section named .strtab is only its string
\* table.
C25_SymbolTableOfSymtab ==
    (op = "symbol_table" /\ res.tag = "Some" /\ SymtabAsWritten) =>
        /\ res.val.data.off = img.shdrs[3].offset
        /\ res.val.data.count = img.shdrs[3].size \div SymSize

\* symbol_table() of the image whose .symtab holds five symbols at SymOff
\* and whose .strtab is four bytes at StrtabOff: a table of no record, at
\* StrtabOff
C25_Witness ==
    /\ op = "symbol_table"
    /\ SymtabAsWritten
    /\ img.shdrs[3].offset = SymOff /\ img.shdrs[3].size = 120
    /\ img.shdrs[4].offset = StrtabOff /\ img.shdrs[4].size = 4
    /\ res.tag = "Some"
    /\ res.val.data = [tag |-> "Syms", off |-> StrtabOff, count |-> 0]

\* what does hold: the records of a SymbolTable are the bytes of the section
\* named .strtab, as 24-byte records, and so is its string table
SymbolTableOfStrtab ==
    (op = "symbol_table" /\ res.tag = "Some" /\ SymtabAsWritten /\ img.shdrs[4].name = 9) =>
        /\ res.val.data.off = img.shdrs[4].offset
        /\ res.val.data.count = img.shdrs[4].size \div SymSize
        /\ res.val.strtab = Some(Slice(img.shdrs[4].offset, img.shdrs[4].size))

\* symbol_table() of an image whose .strtab is 48 bytes: two records
SymbolTableOfTwo ==
    /\ op = "symbol_table"
    /\ SymtabAsWritten
    /\ res.tag = "Some"
    /\ res.val.data.count = 2

---------------------------------------------------------------------------
(* SymbolTable::find (symbol.rs).  The predicate is the caller's closure:  *)
(* what find does with it depends only on the records it accepts, given    *)
(* here as the set of their indices.  The result carries the indices the   *)
(* predicate was called on, in the order of the calls.                     *)

Found(r, called) == [tag |-> r.tag, val |-> r.val, calls |-> called]

\* find calling the predicate on every record and keeping the last match
RECURSIVE FindLastFrom(_, _, _, _)
FindLastFrom(syms, accepts, i, last) ==
    IF i >= syms.count THEN Found(last, <<>>)
    ELSE LET rest == FindLastFrom(syms, accepts, i + 1,
                                  IF i \in accepts THEN Some(syms.off + i * SymSize) ELSE last)
         IN  Found(rest, <<i>> \o rest.calls)

SymbolTable_find_Last(t, accepts) == FindLastFrom(t.data, accepts, 0, None)

\* self.data.iter().map(|sym| Symbol { elf, sym }).find(f), from record i on
RECURSIVE FindFrom(_, _, _)
FindFrom(syms, accepts, i) ==
    IF i >= syms.count THEN Found(None, <<>>)
    ELSE IF i \in accepts THEN Found(Some(syms.off + i * SymSize), <<i>>)
    ELSE LET rest == FindFrom(syms, accepts, i + 1)
         IN  Found(rest, <<i>> \o rest.calls)

\* SymbolTable::find
SymbolTable_find(t, accepts) == FindFrom(t.data, accepts, 0)

\* the most records of a table
MaxSyms == 3

\* the symbols of the tables: two of one value in different sections, one
\* undefined, one of another value
FindSyms ==
    {[name |-> 1, info |-> 18, other |-> 0, shndx |-> 1, value |-> 4096, size |-> 16],
     [name |-> 2, info |-> 18, other |-> 0, shndx |-> 2, value |-> 4096, size |-> 0],
     [name |-> 0, info |-> 0, other |-> 0, shndx |-> 0, value |-> 0, size |-> 0]}

InitFind ==
    /\ \E syms \in SeqsUpTo(FindSyms, MaxSyms) :
         /\ img = [fam |-> "find", syms |-> syms]
         /\ data = Flat([i \in 1..Len(syms) |-> EncSym(syms[i])])
    /\ aligned = TRUE
    /\ elf = "none" /\ op = "init" /\ arg = 0 /\ res = None
    /\ iter = NoIter /\ out = <<>> /\ prev = NoPrev /\ oob = FALSE
    /\ table = NoTable

\* the table of all the records of the buffer, without a string table
WholeTable(b) == SymbolTable_new(SymSlice(Whole(b)), None).val

\* the records of t that the closure |s| s.value() == v accepts
AcceptsValue(b, t, v) ==
    {i \in 0..(t.data.count - 1) : Sym_value(b, t.data.off + i * SymSize) = v}

\* and those that |s| s.section_index() == x accepts
AcceptsSection(b, t, x) ==
    {i \in 0..(t.data.count - 1) : Sym_section_index(b, t.data.off + i * SymSize) = x}

\* table.find(|s| s.value() == v)
FindByValue ==
    /\ \E v \in {0, 8, 4096} :
         Call("find_value", v,
              SymbolTable_find(WholeTable(data),
                               AcceptsValue(data, WholeTable(data), Enc(v, 8))))
    /\ UNCHANGED <<table, data, aligned, img, elf, iter, out, prev>>

\* table.find(|s| s.section_index() == x)
FindBySection ==
    /\ \E x \in {0, 1, 2} :
         Call("find_section", x,
              SymbolTable_find(WholeTable(data),
                               AcceptsSection(data, WholeTable(data), x)))
    /\ UNCHANGED <<table, data, aligned, img, elf, iter, out, prev>>

NextFind ==
    \/ FindByValue
    \/ FindBySection

SpecFind == InitFind /\ [][NextFind]_vars

\* the indices, from 0, of the symbols that satisfy the predicate last given
Satisfying ==
    {i \in 0..(Len(img.syms) - 1) :
        IF op = "find_value" THEN img.syms[i + 1].value = arg
        ELSE img.syms[i + 1].shndx = arg}

\* C22: SymbolTable::find(predicate) is a first-match linear scan: it
\* returns the symbol of lowest table index that satisfies the predicate,
\* evaluates the predicate on the symbols in increasing index order and on
\* none after the match, and returns absence exactly when no symbol
\* satisfies it.
C22_FindFirstMatch ==
    op \in {"find_value", "find_section"} =>
        /\ res.tag = "None" <=> Satisfying = {}
        /\ Satisfying # {} =>
             /\ res = Found(Some(SetMin(Satisfying) * 24), res.calls)
             /\ res.calls = [k \in 1..(SetMin(Satisfying) + 1) |-> k - 1]
        /\ Satisfying = {} => res.calls = [k \in 1..Len(img.syms) |-> k - 1]

\* a table of an undefined symbol and two symbols of value 0x1000 was
\* searched for the value 0x1000: the second record, after two calls
C22_Witness ==
    /\ op = "find_value" /\ arg = 4096
    /\ Len(img.syms) = 3
    /\ Satisfying = {1, 2}
    /\ res.tag = "Some" /\ res.val = 24
    /\ res.calls = <<0, 1>>

---------------------------------------------------------------------------
(* Absence of a lookup of an Elf.  The names of the sections as the image  *)
(* states them: the section name table is the contents of the section the  *)
(* header's index names, and a section's name the bytes of that table from *)
(* the section's name index up to a NUL or to the table's end.             *)

\* the section name table stated: a record of its offset and size, or
\* <<>> when the header's index names no section
StatedNameTable ==
    IF img.h.shstrndx < img.h.shnum
    THEN <<[off |-> img.shdrs[img.h.shstrndx + 1].offset,
            size |-> img.shdrs[img.h.shstrndx + 1].size]>>
    ELSE <<>>

\* the name of a section whose name index is n in the name table t; <<>>
\* for a section without a name
NameIn(t, n) ==
    IF ~RangeInside(t.off, t.size, Len(data)) \/ n = 0 \/ n >= t.size THEN <<>>
    ELSE LET nuls == NulsIn(data, t.off + n, t.off + t.size)
         IN  SubSeq(data, t.off + n + 1,
                    IF nuls = {} THEN t.off + t.size ELSE SetMin(nuls))

StatedName(i) ==
    IF StatedNameTable = <<>> THEN <<>>
    ELSE NameIn(StatedNameTable[1], img.shdrs[i].name)

NoSectionNamed(name) == \A i \in 1..img.h.shnum : StatedName(i) # name

NoDynamicSegment == \A i \in 1..img.h.phnum : img.phdrs[i].type # 2

\* C23: absence of a lookup is a value, not an abort: on an Elf whose header
\* tables lie inside the buffer, section(i) and section_header(i) return
\* absence exactly when i is at or above the section count,
\* section_string_table() returns absence when the index of the section
\* name table is at or above the section count, string_table() and
\* symbol_table() return absence when no section is named .strtab, and
\* dynamic_table() returns absence when no segment has the type Dynamic.
C23_AbsenceIsAValue ==
    (elf = "ok" /\ TablesAsWritten) =>
        /\ op = "section" =>
             res.tag = (IF arg >= img.h.shnum THEN "None" ELSE "Some")
        /\ op = "section_string_table" /\ img.h.shstrndx >= img.h.shnum => res = None
        /\ op \in {"string_table", "symbol_table"} /\ NoSectionNamed(StrtabName) =>
             res = None
        /\ op = "dynamic_table" /\ NoDynamicSegment => res = None

\* string_table() of an image whose section name table is the 8 bytes
\* NUL ".symtab", which name no section .strtab and end without a NUL:
\* reading the name of the .symtab section aborted
C23_Witness ==
    /\ op = "string_table"
    /\ elf = "ok" /\ TablesAsWritten
    /\ img.fam = "named"
    /\ StatedNameTable = <<[off |-> ShstrtabOff, size |-> 8]>>
    /\ NoSectionNamed(StrtabName)
    /\ IsPanic(res)

\* the section name table lies inside the buffer and ends with a NUL
NameTableWhole ==
    /\ StatedNameTable # <<>>
    /\ RangeInside(StatedNameTable[1].off, StatedNameTable[1].size, Len(data))
    /\ \/ StatedNameTable[1].size = 0
       \/ data[StatedNameTable[1].off + StatedNameTable[1].size] = 0

\* what does hold: the absences of section(i), section_string_table() and
\* dynamic_table(), and those of string_table() and symbol_table() when no
\* section name table is stated or the one stated is whole
AbsenceWithWholeNameTable ==
    (elf = "ok" /\ TablesAsWritten) =>
        /\ op = "section" =>
             res.tag = (IF arg >= img.h.shnum THEN "None" ELSE "Some")
        /\ op = "section_string_table" /\ img.h.shstrndx >= img.h.shnum => res = None
        /\ (op \in {"string_table", "symbol_table"} /\ NoSectionNamed(StrtabName)
              /\ (StatedNameTable = <<>> \/ NameTableWhole)) =>
             res = None
        /\ op = "dynamic_table" /\ NoDynamicSegment => res = None

\* string_table() of an image with a whole section name table and no
\* section named .strtab: absent
StringTableAbsent ==
    /\ op = "string_table"
    /\ elf = "ok" /\ TablesAsWritten
    /\ NameTableWhole /\ StatedNameTable[1].size > 0
    /\ NoSectionNamed(StrtabName)
    /\ res = None

\* dynamic_table() of an image with a segment and none of type Dynamic
DynamicTableAbsent ==
    /\ op = "dynamic_table"
    /\ img.h.phnum > 0 /\ NoDynamicSegment
    /\ res = None

\* section_string_table() of an image whose name table index is the
\* section count
SectionStringTableAbsent ==
    /\ op = "section_string_table"
    /\ img.h.shnum > 0 /\ img.h.shstrndx = img.h.shnum
    /\ res = None
============================================================================
